---- MODULE Spec2Model ----
(***************************************************************************)
(* Battleships: the Board/Cell placement-and-shooting engine, the          *)
(* placement objects, and the phase state machine (Placement, Shooting,    *)
(* Extended variants, End) driven by GameUI.                               *)
(***************************************************************************)
EXTENDS Integers, Sequences, FiniteSets, TLC

VARIABLES
    grid,                 \* Board.grid of both players: cell -> [object, is_shot]
    board_objects,        \* Board.objects of both players (the registry)
    player_objects,       \* Player.objects of both players (the fleet list)
    heap,                 \* the GameObject instances made for each player
    op,                   \* the last call and what it returned / reported
    settings,             \* GameSettings: mode, player types, game_objects
    game_phase,           \* the class of GameUI.game_phase (the live phase)
    current_player_idx,   \* of the placement phase, then of the shooting phase
    placement_object_idx, \* PlacementPhase.placement_object_idx
    ext,                  \* the fields ExtendedShootingPhase adds
    available_targets,    \* ComputerPlayer.available_targets of both players
    pending_timers,       \* the window.after callbacks not yet run, oldest first
    winner,               \* GameUI.winner
    has_ended,            \* GameUI.has_ended
    phase_log,            \* the classes next_phase_callback was called with
    superseded,           \* the shooting phase a new match replaced, or None
    hunter                \* a computer player on its own: class, search_queue,
                          \* current_direction, first_hit, placement_heatmap

boardVars == <<grid, board_objects, player_objects, heap>>
gameVars == <<settings, game_phase, current_player_idx, placement_object_idx,
              ext, available_targets, pending_timers, winner, has_ended,
              phase_log, superseded, hunter>>
vars == <<grid, board_objects, player_objects, heap, op, settings, game_phase,
          current_player_idx, placement_object_idx, ext, available_targets,
          pending_timers, winner, has_ended, phase_log, superseded, hunter>>

----------------------------------------------------------------------------
(* Bounds of the model *)

BoardWidth == 3
BoardHeight == 2
MaxShots == 2             \* cells that may be marked shot on the two grids together
MaxTimers == 2            \* window.after callbacks that may be pending together
MaxTimersExtended == 1    \* the same in an extended match
FleetShips == 1           \* ships of the fleet list that are kept (from its end)
FleetMines == 1           \* mines of the extended fleet list that are kept
MaxQueue == 2             \* entries of a search_queue a player starts with
MaxFrequency == 2         \* the largest count of a placement heatmap
HuntWidth == 4            \* the board a hunt-and-target player shoots at
HuntHeight == 2
MaxEarlierShots == 1      \* cells of that board shot before the hunt

----------------------------------------------------------------------------
(* Values *)

None == <<>>
NoObject == 0
Players == {0, 1}
HORIZONTAL == "HORIZONTAL"
VERTICAL == "VERTICAL"
Orientations == {HORIZONTAL, VERTICAL}

Range(s) == {s[i] : i \in 1..Len(s)}

Cells == (0..(BoardWidth - 1)) \X (0..(BoardHeight - 1))

\* the sizes the Ship subclasses and Mine pass to GameObject.__init__
Size(name) ==
    CASE name = "Battleship" -> 5
      [] name = "Cruiser" -> 4
      [] name = "Destroyer" -> 3
      [] name = "Submarine" -> 2
      [] name = "Mine" -> 1

\* GameObject.__init__ / Ship.__init__ / Mine.__init__: a fresh, unplaced object
NewObject(name, orientation) ==
    [name |-> name, size |-> Size(name), coordinates |-> <<>>,
     is_placed |-> FALSE, orientation |-> orientation,
     hits |-> 0, triggered |-> FALSE]

IsMine(o) == o.name = "Mine"
IsShip(o) == o.name # "Mine"

\* Ship.is_destroyed / Mine.is_destroyed
is_destroyed(o) == IF IsMine(o) THEN o.triggered ELSE o.hits >= o.size

----------------------------------------------------------------------------
(* Board and Cell *)

\* Board.get_cell: the cell, or None when (x, y) is outside the grid
get_cell(x, y) ==
    IF 0 <= x /\ x < BoardWidth /\ 0 <= y /\ y < BoardHeight
    THEN <<x, y>> ELSE None

\* Cell.is_occupied
is_occupied(g, c) == g[c].object # NoObject

\* GameObject.set_position: the coordinates from a start cell and an orientation
set_position(size, orientation, start_x, start_y) ==
    IF orientation = HORIZONTAL
    THEN [i \in 1..size |-> <<start_x + (i - 1), start_y>>]
    ELSE [i \in 1..size |-> <<start_x, start_y + (i - 1)>>]

\* the offsets Board._get_adjacent_cells looks at, without the bounds test
OrthogonalOffsets == {<<-1, 0>>, <<1, 0>>, <<0, -1>>, <<0, 1>>}
MooreOffsets == ((-1..1) \X (-1..1)) \ {<<0, 0>>}

\* (variant) only the four orthogonal neighbours
get_adjacent_cells_orthogonal(coords) ==
    {c \in Cells : \E i \in 1..Len(coords), d \in OrthogonalOffsets :
        c = <<coords[i][1] + d[1], coords[i][2] + d[2]>>}

\* Board._get_adjacent_cells: the in-bounds cells around the coordinates
get_adjacent_cells(coords) ==
    {c \in Cells : \E i \in 1..Len(coords), d \in MooreOffsets :
        c = <<coords[i][1] + d[1], coords[i][2] + d[2]>>}

\* (variant) the test of the neighbouring cells left out
can_place_object_overlap(g, coords) ==
    \A i \in 1..Len(coords) :
        /\ get_cell(coords[i][1], coords[i][2]) # None
        /\ ~is_occupied(g, coords[i])

\* Board.can_place_object
can_place_object(g, coords) ==
    /\ \A i \in 1..Len(coords) :
          /\ get_cell(coords[i][1], coords[i][2]) # None
          /\ ~is_occupied(g, coords[i])
    /\ \A c \in get_adjacent_cells(coords) : ~is_occupied(g, c)

\* the grid after Cell.place_object on every coordinate
PlaceOnGrid(g, id, coords) ==
    [c \in Cells |-> IF c \in Range(coords)
                     THEN [g[c] EXCEPT !.object = id] ELSE g[c]]

\* (variant) only the first cell of the object is cleared
RemoveFromGrid_first(g, id, coords) ==
    [c \in Cells |-> IF coords # <<>> /\ c = coords[1] /\ g[c].object = id
                     THEN [g[c] EXCEPT !.object = NoObject] ELSE g[c]]

\* the grid after Board.remove_object cleared the object's cells
RemoveFromGrid(g, id, coords) ==
    [c \in Cells |-> IF c \in Range(coords) /\ g[c].object = id
                     THEN [g[c] EXCEPT !.object = NoObject] ELSE g[c]]

\* list.remove(x): drops the first occurrence
RECURSIVE ListRemove(_, _)
ListRemove(s, x) ==
    IF s = <<>> THEN <<>>
    ELSE IF Head(s) = x THEN Tail(s)
    ELSE <<Head(s)>> \o ListRemove(Tail(s), x)

\* (variant) every hit counts, whatever the hits so far
on_hit_unbounded(o) ==
    IF IsMine(o) THEN [o EXCEPT !.triggered = TRUE]
    ELSE [o EXCEPT !.hits = o.hits + 1]

\* Ship.on_hit / Mine.on_hit: the object after a hit on one of its cells
on_hit(o) ==
    IF IsMine(o) THEN [o EXCEPT !.triggered = TRUE]
    ELSE IF o.hits < o.size THEN [o EXCEPT !.hits = o.hits + 1] ELSE o

\* ShootResult(hit, is_destroyed, missed, hit_object)
ShootResult(hit, destroyed, missed, hit_object) ==
    [hit |-> hit, is_destroyed |-> destroyed, missed |-> missed,
     hit_object |-> hit_object]

\* Board.shoot_at and Cell.shoot: the result of a shot at (x, y)
shoot_result(g, objs, x, y) ==
    LET cell == get_cell(x, y) IN
    IF cell = None THEN ShootResult(FALSE, FALSE, TRUE, NoObject)
    ELSE IF g[cell].is_shot THEN ShootResult(FALSE, FALSE, FALSE, NoObject)
    ELSE IF g[cell].object # NoObject
         THEN ShootResult(TRUE, is_destroyed(on_hit(objs[g[cell].object])),
                          FALSE, g[cell].object)
    ELSE ShootResult(FALSE, FALSE, TRUE, NoObject)

\* Board.shoot_at and Cell.shoot: the grid after a shot at (x, y)
shoot_grid(g, x, y) ==
    LET cell == get_cell(x, y) IN
    IF cell = None \/ g[cell].is_shot THEN g
    ELSE [g EXCEPT ![cell].is_shot = TRUE]

\* (variant) the is_shot test of Board.shoot_at left out
shoot_objects_reshoot(g, objs, x, y) ==
    LET cell == get_cell(x, y) IN
    IF cell = None THEN objs
    ELSE IF g[cell].object = NoObject THEN objs
    ELSE [objs EXCEPT ![g[cell].object] = on_hit(objs[g[cell].object])]

\* Board.shoot_at and Cell.shoot: the objects after a shot at (x, y)
shoot_objects(g, objs, x, y) ==
    LET cell == get_cell(x, y) IN
    IF cell = None \/ g[cell].is_shot \/ g[cell].object = NoObject THEN objs
    ELSE [objs EXCEPT ![g[cell].object] = on_hit(objs[g[cell].object])]

\* what the shot is aimed at, before it is fired
TargetState(g, x, y) ==
    IF get_cell(x, y) = None THEN "outside"
    ELSE IF g[get_cell(x, y)].is_shot THEN "shot" ELSE "unshot"

EmptyGrid == [c \in Cells |-> [object |-> NoObject, is_shot |-> FALSE]]

----------------------------------------------------------------------------
(* Settings, players and the fleet *)

STANDARD == "Standard"
EXTENDED == "Erweitert"
GameModes == {STANDARD, EXTENDED}

\* the classes of the players PlayerFactory.create makes
HumanPlayer == "HumanPlayer"
EasyComputerPlayer == "EasyComputerPlayer"
PlayerClasses == {HumanPlayer, EasyComputerPlayer}

\* the classes of the phases, and the values of GameUI.game_phase without one
PlacementPhase == "PlacementPhase"
ExtendedPlacementPhase == "ExtendedPlacementPhase"
ShootingPhase == "ShootingPhase"
ExtendedShootingPhase == "ExtendedShootingPhase"
EndPhase == "EndPhase"
GamePhase == "GamePhase"
NoPhase == "None"
NoUI == "NoUI"

\* PlacementPhase.create_game_objects / ExtendedPlacementPhase.create_game_objects
create_game_objects(mode) ==
    LET base == <<"Battleship", "Cruiser", "Cruiser",
                  "Destroyer", "Destroyer", "Destroyer",
                  "Submarine", "Submarine", "Submarine", "Submarine">>
    IN IF mode = EXTENDED THEN base \o <<"Mine", "Mine", "Mine">> ELSE base

\* settings.game_objects as PlacementPhase.__init__ sets it, scaled to the
\* board: the last FleetShips ships and the first FleetMines mines of the list
game_objects(mode) ==
    LET all == create_game_objects(mode)
        ships == SelectSeq(all, LAMBDA n : n # "Mine")
        mines == SelectSeq(all, LAMBDA n : n = "Mine")
        kept == SubSeq(ships, Len(ships) - FleetShips + 1, Len(ships))
                \o SubSeq(mines, 1, IF FleetMines < Len(mines)
                                    THEN FleetMines ELSE Len(mines))
    IN [i \in 1..Len(kept) |-> [name |-> kept[i], orientation |-> HORIZONTAL]]

\* Orientation.rotate
rotate(orientation) == IF orientation = HORIZONTAL THEN VERTICAL ELSE HORIZONTAL

\* the fields ExtendedShootingPhase.__init__ sets
NewExt ==
    [shooting_ship |-> NoObject, shot |-> 0, selected_ship |-> NoObject,
     selection_done |-> FALSE, hit_mine |-> FALSE]

\* the record a handler starts with in op
NewOp(name, click) ==
    [name |-> name, click |-> click, shot |-> None, callbacks |-> <<>>,
     error |-> "", placed |-> <<>>]

----------------------------------------------------------------------------
(* The computer players: select_target and process_shot_result *)

\* the classes PlayerFactory.create makes beside the two above
MediumComputerPlayer == "MediumComputerPlayer"
HardComputerPlayer == "HardComputerPlayer"
ImpossibleComputerPlayer == "ImpossibleComputerPlayer"

\* what select_target hands back: the target (or None), the lists it leaves
\* behind, and the statement that returned
Selected(target, avail, queue, branch) ==
    [target |-> target, available_targets |-> avail, search_queue |-> queue,
     branch |-> branch]

\* (variant) the target stays in available_targets
easy_select_target_keep(avail) ==
    IF avail = {} THEN {Selected(None, avail, <<>>, "none")}
    ELSE {Selected(t, avail, <<>>, "random") : t \in avail}

\* EasyComputerPlayer.select_target: random.choice and remove, None without
\* targets
easy_select_target(avail) ==
    IF avail = {} THEN {Selected(None, avail, <<>>, "none")}
    ELSE {Selected(t, avail \ {t}, <<>>, "random") : t \in avail}

\* (variant) an entry that is no longer available ends the use of the queue
medium_select_target_norecurse(queue, avail) ==
    IF queue # <<>> /\ Head(queue) \in avail
    THEN {Selected(Head(queue), avail \ {Head(queue)}, Tail(queue), "queue")}
    ELSE IF avail # {}
         THEN {Selected(t, avail \ {t}, <<>>, "random") : t \in avail}
         ELSE {Selected(None, avail, <<>>, "none")}

\* MediumComputerPlayer.select_target: the head of search_queue if it is
\* still available, else the call again on the rest; random.choice with an
\* empty queue
RECURSIVE medium_select_target(_, _)
medium_select_target(queue, avail) ==
    IF queue # <<>>
    THEN IF Head(queue) \in avail
         THEN {Selected(Head(queue), avail \ {Head(queue)}, Tail(queue),
                        "queue")}
         ELSE medium_select_target(Tail(queue), avail)
    ELSE IF avail # {}
         THEN {Selected(t, avail \ {t}, <<>>, "random") : t \in avail}
         ELSE {Selected(None, avail, <<>>, "none")}

\* dict.get(target, 0) on a placement heatmap
frequency(heatmap, target) ==
    IF target \in DOMAIN heatmap THEN heatmap[target] ELSE 0

\* (variant) the frequency itself is the weight
weight_frequency(heatmap, target) == frequency(heatmap, target)

\* the weight of a target in HardComputerPlayer._select_statistical_target
weight(heatmap, target) ==
    IF frequency(heatmap, target) > 1 THEN frequency(heatmap, target) ELSE 1

\* HardComputerPlayer._select_statistical_target on a non-empty list:
\* weighted_targets holds every target weight times; random.choice of an
\* empty list raises IndexError
select_statistical_target(avail, heatmap) ==
    IF DOMAIN heatmap = {}
    THEN {Selected(t, avail \ {t}, <<>>, "random") : t \in avail}
    ELSE LET weighted_targets == [t \in avail |-> weight(heatmap, t)]
             choices == {t \in avail : weighted_targets[t] > 0}
         IN IF choices = {}
            THEN {Selected(None, avail, <<>>, "IndexError")}
            ELSE {Selected(t, avail \ {t}, <<>>, "random") : t \in choices}

\* HardComputerPlayer.select_target
RECURSIVE hard_select_target(_, _, _)
hard_select_target(queue, avail, heatmap) ==
    IF queue # <<>>
    THEN IF Head(queue) \in avail
         THEN {Selected(Head(queue), avail \ {Head(queue)}, Tail(queue),
                        "queue")}
         ELSE hard_select_target(Tail(queue), avail, heatmap)
    ELSE IF avail # {}
         THEN select_statistical_target(avail, heatmap)
         ELSE {Selected(None, avail, <<>>, "none")}

\* ImpossibleComputerPlayer.refresh_available_targets: every occupied cell of
\* the opponent's grid, shot or not
refresh_available_targets(g) == {c \in DOMAIN g : g[c].object # NoObject}

\* ImpossibleComputerPlayer.select_target: the list is refreshed when it is
\* empty
impossible_select_target(avail, g) ==
    LET targets == IF avail = {} THEN refresh_available_targets(g) ELSE avail
    IN IF targets = {} THEN {Selected(None, targets, <<>>, "none")}
       ELSE {Selected(t, targets \ {t}, <<>>, "random") : t \in targets}

\* the directions of MediumComputerPlayer.get_valid_neighbors in its order
NeighborDirections == <<(<<1, 0>>), (<<-1, 0>>), (<<0, 1>>), (<<0, -1>>)>>

\* MediumComputerPlayer.get_valid_neighbors(x, y, None) on a board of the
\* given width and height
get_valid_neighbors(x, y, avail, queue, width, height) ==
    LET at(d) == <<x + d[1], y + d[2]>>
        valid(d) == /\ 0 <= at(d)[1] /\ at(d)[1] < width
                    /\ 0 <= at(d)[2] /\ at(d)[2] < height
                    /\ at(d) \in avail
                    /\ at(d) \notin Range(queue)
        kept == SelectSeq(NeighborDirections, valid)
    IN [i \in 1..Len(kept) |-> at(kept[i])]

\* (variant) only the four orthogonal neighbours of every cell of the list
get_surrounding_cells_orthogonal(cells, width, height) ==
    {c \in (0..(width - 1)) \X (0..(height - 1)) :
        \E i \in 1..Len(cells), d \in OrthogonalOffsets :
            c = <<cells[i][1] + d[1], cells[i][2] + d[2]>>}

\* MediumComputerPlayer.get_surrounding_cells of every cell of a list
get_surrounding_cells(cells, width, height) ==
    {c \in (0..(width - 1)) \X (0..(height - 1)) :
        \E i \in 1..Len(cells), d \in MooreOffsets :
            c = <<cells[i][1] + d[1], cells[i][2] + d[2]>>}

\* the fields MediumComputerPlayer.__init__ sets, on the available targets
\* ComputerPlayer.__init__ made
NewHunt(avail) ==
    [available_targets |-> avail, search_queue |-> <<>>,
     current_direction |-> None, first_hit |-> None]

\* (variant) the next cell of the line is put at the end of the queue
follow_up_hit_append(h, x, y) ==
    LET d == IF h.current_direction # None THEN h.current_direction
             ELSE IF x = h.first_hit[1]
                  THEN (IF y > h.first_hit[2] THEN <<0, 1>> ELSE <<0, -1>>)
                  ELSE (IF x > h.first_hit[1] THEN <<1, 0>> ELSE <<-1, 0>>)
        n == <<x + d[1], y + d[2]>>
    IN [h EXCEPT !.current_direction = d,
                 !.search_queue = IF n \in h.available_targets
                                  THEN Append(@, n) ELSE @]

\* MediumComputerPlayer.process_shot_result, a hit with first_hit set: the
\* direction from first_hit to the hit, and the next cell of the line first
\* in the queue
follow_up_hit(h, x, y) ==
    LET d == IF h.current_direction # None THEN h.current_direction
             ELSE IF x = h.first_hit[1]
                  THEN (IF y > h.first_hit[2] THEN <<0, 1>> ELSE <<0, -1>>)
                  ELSE (IF x > h.first_hit[1] THEN <<1, 0>> ELSE <<-1, 0>>)
        n == <<x + d[1], y + d[2]>>
    IN [h EXCEPT !.current_direction = d,
                 !.search_queue = IF n \in h.available_targets
                                  THEN <<n>> \o @ ELSE @]

\* (variant) the neighbours of a first hit with the diagonal ones
first_hit_moore(h, x, y, width, height) ==
    LET around == {c \in get_surrounding_cells(<<(<<x, y>>)>>, width, height) :
                      c \in h.available_targets}
        order == CHOOSE s \in [1..Cardinality(around) -> around] :
                    Range(s) = around
    IN [h EXCEPT !.first_hit = <<x, y>>, !.search_queue = @ \o order]

\* MediumComputerPlayer.process_shot_result, a hit without first_hit
first_hit(h, x, y, width, height) ==
    [h EXCEPT !.first_hit = <<x, y>>,
              !.search_queue =
                  @ \o get_valid_neighbors(x, y, h.available_targets,
                                           h.search_queue, width, height)]

\* (variant) a miss leaves the direction as it is
miss_direction_kept(h) ==
    IF h.current_direction # None /\ h.first_hit # None
    THEN LET n == <<h.first_hit[1] - h.current_direction[1],
                    h.first_hit[2] - h.current_direction[2]>>
         IN [h EXCEPT !.search_queue =
                          IF n \in h.available_targets /\ n \notin Range(@)
                          THEN <<n>> \o @ ELSE @]
    ELSE h

\* MediumComputerPlayer.process_shot_result, a miss: with a direction and a
\* first hit the cell on the other side of first_hit is put first in the
\* queue unless it is unavailable or queued already, and the direction is
\* dropped
miss(h) ==
    IF h.current_direction # None /\ h.first_hit # None
    THEN LET n == <<h.first_hit[1] - h.current_direction[1],
                    h.first_hit[2] - h.current_direction[2]>>
         IN [h EXCEPT !.search_queue =
                          IF n \in h.available_targets /\ n \notin Range(@)
                          THEN <<n>> \o @ ELSE @,
                      !.current_direction = None]
    ELSE h

\* MediumComputerPlayer.process_shot_result on the fields of the player
process_shot_result(h, x, y, was_hit, ship_destroyed, destroyed_ship_cells, width, height) ==
    IF ~was_hit THEN miss(h)
    ELSE IF ship_destroyed
    THEN [h EXCEPT !.search_queue = <<>>,
                   !.current_direction = None,
                   !.first_hit = None,
                   !.available_targets =
                       @ \ get_surrounding_cells(destroyed_ship_cells,
                                                 width, height)]
    ELSE IF h.first_hit = None THEN first_hit(h, x, y, width, height)
    ELSE follow_up_hit(h, x, y)

----------------------------------------------------------------------------
(* The state as one value, for the operators that model the methods *)

State ==
    [grid |-> grid, board_objects |-> board_objects,
     player_objects |-> player_objects, heap |-> heap, op |-> op,
     settings |-> settings, game_phase |-> game_phase,
     current_player_idx |-> current_player_idx,
     placement_object_idx |-> placement_object_idx, ext |-> ext,
     available_targets |-> available_targets,
     pending_timers |-> pending_timers, winner |-> winner,
     has_ended |-> has_ended, phase_log |-> phase_log]

BecomeLive(S) ==
    /\ grid' = S.grid
    /\ board_objects' = S.board_objects
    /\ player_objects' = S.player_objects
    /\ heap' = S.heap
    /\ op' = S.op
    /\ settings' = S.settings
    /\ game_phase' = S.game_phase
    /\ current_player_idx' = S.current_player_idx
    /\ placement_object_idx' = S.placement_object_idx
    /\ ext' = S.ext
    /\ available_targets' = S.available_targets
    /\ pending_timers' = S.pending_timers
    /\ winner' = S.winner
    /\ has_ended' = S.has_ended
    /\ phase_log' = S.phase_log

Become(S) ==
    /\ BecomeLive(S)
    /\ UNCHANGED <<superseded, hunter>>

\* isinstance(player, ComputerPlayer)
IsComputerPlayer(S, p) == S.settings.players[p] # HumanPlayer

\* (variant) the mines are left out
has_lost_ships(S, p) ==
    \A i \in 1..Len(S.player_objects[p]) :
        IsShip(S.heap[p][S.player_objects[p][i]])
            => is_destroyed(S.heap[p][S.player_objects[p][i]])

\* Player.has_lost
has_lost(S, p) ==
    \A i \in 1..Len(S.player_objects[p]) :
        is_destroyed(S.heap[p][S.player_objects[p][i]])

\* GamePhase.game_over
game_over(S) == \E p \in Players : has_lost(S, p)

\* self.turn_callback(a, b)
turn_callback(S, a, b) == [S EXCEPT !.op.callbacks = Append(@, <<a, b>>)]

----------------------------------------------------------------------------
(* ShootingPhase, ExtendedShootingPhase and GameUI.next_phase_callback *)

IsExtended(S) == S.settings.mode = EXTENDED

\* GamePhase.next_player / ExtendedShootingPhase.next_player
next_player(S) ==
    IF IsExtended(S) /\ S.game_phase \notin {PlacementPhase, ExtendedPlacementPhase}
    THEN [S EXCEPT !.ext.shooting_ship = NoObject,
                   !.ext.selected_ship = NoObject,
                   !.ext.shot = 0,
                   !.ext.hit_mine = FALSE,
                   !.current_player_idx = 1 - @]
    ELSE [S EXCEPT !.current_player_idx = 1 - @]

\* ExtendedShootingPhase.new_shooting_ship, ship an object of the current player
new_shooting_ship(S, ship) ==
    IF ship = NoObject THEN S
    ELSE IF ~IsShip(S.heap[S.current_player_idx][ship]) THEN S
    ELSE IF S.ext.shot > 0 THEN S
    ELSE IF S.ext.selected_ship = ship THEN [S EXCEPT !.ext.selected_ship = NoObject]
    ELSE [S EXCEPT !.ext.selected_ship = ship]

\* ExtendedShootingPhase.confirm_ship_selection
confirm_ship_selection(S) ==
    IF S.ext.shot = 0
    THEN [S EXCEPT !.ext.shooting_ship = S.ext.selected_ship,
                   !.ext.selected_ship = NoObject,
                   !.ext.shot = 0,
                   !.ext.selection_done = TRUE]
    ELSE S

\* the ship choice of ExtendedShootingPhase.execute_computer_turn
random_ship_selection(S) ==
    LET p == S.current_player_idx
        random_objects == {id \in Range(S.player_objects[p]) :
                              ~is_destroyed(S.heap[p][id])}
    IN IF random_objects = {} THEN {S}
       ELSE {confirm_ship_selection(new_shooting_ship(S, id)) :
                id \in random_objects}

\* self.current_player.select_target() of a computer player of a match
player_select_target(S, p) ==
    IF S.settings.players[p] = ImpossibleComputerPlayer
    THEN impossible_select_target(S.available_targets[p], S.grid[1 - p])
    ELSE easy_select_target(S.available_targets[p])

\* ShootingPhase.execute_computer_turn / ExtendedShootingPhase.execute_computer_turn:
\* the target is taken out of available_targets and the shot is scheduled;
\* without a target the unpacking of None raises TypeError
execute_computer_turn(S) ==
    LET p == S.current_player_idx
        selected == IF IsExtended(S) THEN random_ship_selection(S) ELSE {S}
    IN UNION {{IF r.target = None
               THEN [S2 EXCEPT !.available_targets[p] = r.available_targets,
                               !.op.error = "TypeError"]
               ELSE [S2 EXCEPT !.available_targets[p] = r.available_targets,
                               !.pending_timers = Append(@, r.target)] :
                  S2 \in selected} : r \in player_select_target(S, p)}

\* GameUI.next_phase_callback(EndPhase) and EndPhase.next_turn; the winner is
\* the current player of the phase that is live
next_phase_callback_end(S) ==
    [S EXCEPT !.has_ended = TRUE,
              !.winner = IF S.has_ended THEN @ ELSE S.current_player_idx,
              !.game_phase = EndPhase,
              !.phase_log = Append(@, EndPhase),
              !.op.callbacks = Append(@, <<>>)]

\* (variant) the turn passes one shot after the size of the ship
AllowanceUsed_late(S) ==
    LET ship == S.ext.shooting_ship
        size == IF ship # NoObject
                THEN S.heap[S.current_player_idx][ship].size ELSE 0
    IN \/ (ship = NoObject /\ S.ext.shot = 1)
       \/ S.ext.shot > size
       \/ S.ext.hit_mine

\* the size test of ExtendedShootingPhase.next_turn
AllowanceUsed(S) ==
    LET ship == S.ext.shooting_ship
        size == IF ship # NoObject
                THEN S.heap[S.current_player_idx][ship].size ELSE 0
    IN \/ (ship = NoObject /\ S.ext.shot = 1)
       \/ S.ext.shot >= size
       \/ S.ext.hit_mine

\* (variant) in an extended match a miss passes the turn as well
shooting_next_turn_miss(S, hit) ==
    LET S1 == IF IsExtended(S)
              THEN (IF AllowanceUsed(S) \/ ~hit THEN next_player(S) ELSE S)
              ELSE (IF ~hit THEN next_player(S) ELSE S)
    IN IF game_over(S1) THEN {next_phase_callback_end(S1)}
       ELSE {IF S2.op.error # "" THEN S2
             ELSE turn_callback(S2, hit, game_over(S2)) :
                S2 \in IF IsComputerPlayer(S1, S1.current_player_idx)
                       THEN execute_computer_turn(S1) ELSE {S1}}

\* (variant) the turn passes after every shot of a standard match
shooting_next_turn_flip(S, hit) ==
    LET S1 == IF IsExtended(S)
              THEN (IF AllowanceUsed(S) THEN next_player(S) ELSE S)
              ELSE next_player(S)
    IN IF game_over(S1) THEN {next_phase_callback_end(S1)}
       ELSE {IF S2.op.error # "" THEN S2
             ELSE turn_callback(S2, hit, game_over(S2)) :
                S2 \in IF IsComputerPlayer(S1, S1.current_player_idx)
                       THEN execute_computer_turn(S1) ELSE {S1}}

\* ShootingPhase.next_turn(hit) / ExtendedShootingPhase.next_turn(hit)
shooting_next_turn(S, hit) ==
    LET S1 == IF IsExtended(S)
              THEN (IF AllowanceUsed(S) THEN next_player(S) ELSE S)
              ELSE (IF ~hit THEN next_player(S) ELSE S)
    IN IF game_over(S1) THEN {next_phase_callback_end(S1)}
       ELSE {IF S2.op.error # "" THEN S2
             ELSE turn_callback(S2, hit, game_over(S2)) :
                S2 \in IF IsComputerPlayer(S1, S1.current_player_idx)
                       THEN execute_computer_turn(S1) ELSE {S1}}

\* board.shoot_at on each coordinate in turn; B = [g |-> grid, objs |-> objects]
RECURSIVE shoot_cells(_, _, _)
shoot_cells(B, coords, i) ==
    IF i > Len(coords) THEN B
    ELSE shoot_cells([g |-> shoot_grid(B.g, coords[i][1], coords[i][2]),
                      objs |-> shoot_objects(B.g, B.objs, coords[i][1], coords[i][2])],
                     coords, i + 1)

\* (variant) the ship is destroyed but its cells are not shot
mine_explosion_unmarked(S) ==
    LET p == S.current_player_idx
        ship == S.ext.shooting_ship
    IN [S EXCEPT !.heap[p][ship].hits = S.heap[p][ship].size,
                 !.ext.hit_mine = (Len(S.heap[p][ship].coordinates) > 0) \/ @]

\* the mine branch of ExtendedShootingPhase.execute_turn: the shooting ship is
\* destroyed and its cells are shot on the shooter's own board
mine_explosion(S) ==
    LET p == S.current_player_idx
        ship == S.ext.shooting_ship
        destroyed == [S.heap[p] EXCEPT ![ship].hits = S.heap[p][ship].size]
        B == shoot_cells([g |-> S.grid[p], objs |-> destroyed],
                         S.heap[p][ship].coordinates, 1)
    IN [S EXCEPT !.grid[p] = B.g, !.heap[p] = B.objs,
                 !.ext.hit_mine = (Len(S.heap[p][ship].coordinates) > 0) \/ @]

\* ShootingPhase.execute_turn / ExtendedShootingPhase.execute_turn
shooting_execute_turn(S, x, y) ==
    LET o == 1 - S.current_player_idx
        result == shoot_result(S.grid[o], S.heap[o], x, y)
        S1 == [S EXCEPT !.grid[o] = shoot_grid(@, x, y),
                        !.heap[o] = shoot_objects(S.grid[o], @, x, y),
                        !.op.shot = [board |-> o,
                                     target |-> TargetState(S.grid[o], x, y),
                                     hit |-> result.hit,
                                     is_destroyed |-> result.is_destroyed,
                                     hit_object |-> result.hit_object]]
        S2 == IF IsExtended(S) /\ S.ext.shooting_ship # NoObject
              THEN [S1 EXCEPT !.ext.shot = @ + 1] ELSE S1
        hit_a_mine == IF result.hit THEN IsMine(S.heap[o][result.hit_object])
                      ELSE FALSE
        S3 == IF IsExtended(S) /\ hit_a_mine /\ S.ext.shooting_ship # NoObject
              THEN mine_explosion(S2) ELSE S2
    IN shooting_next_turn(S3, result.hit)

\* ShootingPhase.handle_cell_click
standard_handle_cell_click(S, x, y, is_own_board) ==
    IF is_own_board THEN {S}
    ELSE IF S.grid[1 - S.current_player_idx][<<x, y>>].is_shot THEN {S}
    ELSE shooting_execute_turn(S, x, y)

\* ExtendedShootingPhase.handle_cell_click
extended_handle_cell_click(S, x, y, is_own_board) ==
    IF ~is_own_board
    THEN (IF ~S.ext.selection_done THEN {S}
          ELSE standard_handle_cell_click(S, x, y, is_own_board))
    ELSE {new_shooting_ship(S, S.grid[S.current_player_idx][<<x, y>>].object)}

\* GameUI.next_phase_callback(ShootingPhase or ExtendedShootingPhase) and
\* GameUI.start_real_game: the new phase starts with player 0 and next_turn(True)
next_phase_callback_shooting(S, next_phase) ==
    shooting_next_turn([S EXCEPT !.game_phase = next_phase,
                                 !.phase_log = Append(@, next_phase),
                                 !.current_player_idx = 0,
                                 !.ext = NewExt], TRUE)

\* GameUI.next_phase_callback(PlacementPhase): a new placement phase on the
\* players of the match, and its next_turn
RECURSIVE placement_next_turn(_)
next_phase_callback_placement(S, next_phase) ==
    placement_next_turn([S EXCEPT !.game_phase = next_phase,
                                  !.phase_log = Append(@, next_phase),
                                  !.current_player_idx = 0,
                                  !.placement_object_idx = 0])

\* (variant) a type that is no phase of the match ends the match
next_phase_callback_lenient(S, next_phase) ==
    IF next_phase \in {ShootingPhase, ExtendedShootingPhase}
    THEN next_phase_callback_shooting(S, next_phase)
    ELSE {next_phase_callback_end(S)}

\* GameUI.next_phase_callback: the cases of the match statement; ValueError
\* for a type that is neither a placement, a shooting nor the end phase
next_phase_callback(S, next_phase) ==
    IF next_phase \in {PlacementPhase, ExtendedPlacementPhase}
    THEN next_phase_callback_placement(S, next_phase)
    ELSE IF next_phase \in {ShootingPhase, ExtendedShootingPhase}
    THEN next_phase_callback_shooting(S, next_phase)
    ELSE IF next_phase = EndPhase
    THEN {next_phase_callback_end(S)}
    ELSE {[S EXCEPT !.op.error = "ValueError"]}

----------------------------------------------------------------------------
(* PlacementPhase, ExtendedPlacementPhase and the placement of the players *)

\* Player.objects.append(obj) and, for a placed object, Board.place_object(obj)
add_object(S, p, obj) ==
    LET id == Len(S.heap[p]) + 1 IN
    [S EXCEPT !.heap[p] = Append(@, obj),
              !.player_objects[p] = Append(@, id),
              !.board_objects[p] = IF obj.is_placed THEN Append(@, id) ELSE @,
              !.grid[p] = IF obj.is_placed
                          THEN PlaceOnGrid(@, id, obj.coordinates) ELSE @]

\* Player._get_all_valid_positions: the (row, col, direction) for which
\* set_position(row, col) is accepted by can_place_object; row and col run
\* over range(10) each, which on the board of the game (10 x 10) is every
\* cell, as it is here
get_all_valid_positions(g, size) ==
    {v \in (0..(BoardWidth - 1)) \X (0..(BoardHeight - 1)) \X Orientations :
        can_place_object(g, set_position(size, v[3], v[1], v[2]))}

\* (variant) the positions are not tested against the neighbouring cells
place_random_overlap(S, p, name) ==
    LET size == Size(name)
        valid_positions ==
            {v \in (0..(BoardWidth - 1)) \X (0..(BoardHeight - 1)) \X Orientations :
                can_place_object_overlap(S.grid[p],
                                         set_position(size, v[3], v[1], v[2]))}
        returns(placed) ==
            [S EXCEPT !.op.placed =
                Append(@, [player |-> p, idx |-> S.placement_object_idx,
                           placed |-> placed])]
    IN IF valid_positions = {}
       THEN {add_object(returns(FALSE), p, NewObject(name, VERTICAL))}
       ELSE {add_object(returns(TRUE), p,
                [NewObject(name, v[3]) EXCEPT
                    !.coordinates = set_position(size, v[3], v[1], v[2]),
                    !.is_placed = TRUE]) : v \in valid_positions}

\* Player.place_random / Player._place_safely: a random valid position; with
\* none the object is appended to Player.objects as the scan left it
place_random(S, p, name) ==
    LET size == Size(name)
        valid_positions == get_all_valid_positions(S.grid[p], size)
        returns(placed) ==
            [S EXCEPT !.op.placed =
                Append(@, [player |-> p, idx |-> S.placement_object_idx,
                           placed |-> placed])]
    IN IF valid_positions = {}
       THEN {add_object(returns(FALSE), p,
                [NewObject(name, VERTICAL) EXCEPT
                    !.coordinates = set_position(size, VERTICAL,
                                        BoardWidth - 1, BoardHeight - 1)])}
       ELSE {add_object(returns(TRUE), p,
                [NewObject(name, v[3]) EXCEPT
                    !.coordinates = set_position(size, v[3], v[1], v[2]),
                    !.is_placed = TRUE]) : v \in valid_positions}

\* PlacementPhase.current_object
current_object(S) == S.settings.game_objects[S.placement_object_idx + 1]

\* PlacementPhase.next_placement
next_placement(S) == [S EXCEPT !.placement_object_idx = @ + 1]

\* PlacementPhase.auto_place_all_ships
RECURSIVE auto_place_all_ships(_)
auto_place_all_ships(S) ==
    IF S.placement_object_idx >= Len(S.settings.game_objects) THEN {S}
    ELSE UNION {auto_place_all_ships(next_placement(S2)) :
                   S2 \in place_random(S, S.current_player_idx,
                                       current_object(S).name)}

\* (variant) the extended shooting phase whatever the mode
placement_next_phase_extended(S) ==
    next_phase_callback(S, ExtendedShootingPhase)

\* PlacementPhase.next_phase
placement_next_phase(S) ==
    next_phase_callback(S, IF S.settings.mode = EXTENDED
                           THEN ExtendedShootingPhase ELSE ShootingPhase)

\* (variant) the shooting phase is requested when either player is through
placement_is_over_early(S) ==
    IF S.placement_object_idx < Len(S.settings.game_objects)
    THEN {[ret |-> FALSE, S |-> S]}
    ELSE LET S1 == next_player([S EXCEPT !.placement_object_idx = 0])
         IN {[ret |-> TRUE, S |-> S2] : S2 \in placement_next_phase(S1)}

\* PlacementPhase.is_over: the results [ret, S]
placement_is_over(S) ==
    IF S.placement_object_idx < Len(S.settings.game_objects)
    THEN {[ret |-> FALSE, S |-> S]}
    ELSE LET placement_done == S.current_player_idx = 1
             S1 == next_player([S EXCEPT !.placement_object_idx = 0])
         IN IF placement_done
            THEN {[ret |-> TRUE, S |-> S2] : S2 \in placement_next_phase(S1)}
            ELSE {[ret |-> FALSE, S |-> S1]}

\* PlacementPhase.next_turn
placement_next_turn(S) ==
    UNION {IF r.ret THEN {r.S}
           ELSE LET S1 == turn_callback(r.S, TRUE, FALSE) IN
                IF ~IsComputerPlayer(S1, S1.current_player_idx) THEN {S1}
                ELSE UNION {placement_next_turn(S2) :
                               S2 \in auto_place_all_ships(S1)}
           : r \in placement_is_over(S)}

\* (variant) the object is appended and placed without can_place_object
placement_execute_turn_unchecked(S, x, y) ==
    LET p == S.current_player_idx
        obj_copy == [NewObject(current_object(S).name,
                               current_object(S).orientation) EXCEPT
                        !.coordinates = set_position(Size(current_object(S).name),
                                                     current_object(S).orientation,
                                                     x, y)]
        inside == [obj_copy EXCEPT
                      !.coordinates = SelectSeq(@, LAMBDA c : c \in Cells)]
    IN [ret |-> TRUE,
        S |-> turn_callback(
                 add_object(S, p, [inside EXCEPT !.is_placed = TRUE]),
                 TRUE, FALSE)]

\* PlacementPhase.execute_turn with HumanPlayer.place_object: the results [ret, S]
placement_execute_turn(S, x, y) ==
    LET p == S.current_player_idx
        obj_copy == [NewObject(current_object(S).name,
                               current_object(S).orientation) EXCEPT
                        !.coordinates = set_position(Size(current_object(S).name),
                                                     current_object(S).orientation,
                                                     x, y)]
        can_place == can_place_object(S.grid[p], obj_copy.coordinates)
    IN IF ~can_place
       THEN [ret |-> FALSE, S |-> turn_callback(S, FALSE, FALSE)]
       ELSE [ret |-> TRUE,
             S |-> turn_callback(
                      add_object(S, p, [obj_copy EXCEPT !.is_placed = TRUE]),
                      TRUE, FALSE)]

\* PlacementPhase.handle_cell_click
placement_handle_cell_click(S, x, y, is_own_board) ==
    IF S.settings.players[S.current_player_idx] # HumanPlayer THEN {S}
    ELSE IF ~is_own_board THEN {S}
    ELSE LET r == placement_execute_turn(S, x, y) IN
         IF r.ret THEN placement_next_turn(next_placement(r.S)) ELSE {r.S}

\* PlacementPhase.toggle_orientation
toggle_orientation(S) ==
    [S EXCEPT !.settings.game_objects[S.placement_object_idx + 1].orientation =
                 rotate(@)]

\* GameUI.start_game: new boards and players, the placement phase of the
\* mode, and its first next_turn
start_game(S, mode, class0, class1) ==
    LET classes == [p \in Players |-> IF p = 0 THEN class0 ELSE class1] IN
    placement_next_turn(
        [S EXCEPT !.has_ended = FALSE,
                  !.winner = -1,
                  !.grid = [p \in Players |-> EmptyGrid],
                  !.board_objects = [p \in Players |-> <<>>],
                  !.player_objects = [p \in Players |-> <<>>],
                  !.heap = [p \in Players |-> <<>>],
                  !.available_targets =
                      [p \in Players |->
                          IF classes[p] = HumanPlayer THEN {}
                          ELSE IF classes[p] = ImpossibleComputerPlayer
                          THEN refresh_available_targets(EmptyGrid)
                          ELSE Cells],
                  !.settings = [mode |-> mode, players |-> classes,
                                game_objects |-> game_objects(mode)],
                  !.game_phase = IF mode = EXTENDED THEN ExtendedPlacementPhase
                                 ELSE PlacementPhase,
                  !.current_player_idx = 0,
                  !.placement_object_idx = 0,
                  !.phase_log = <<>>])

\* GameUI.on_cell_click(x, y, player_idx) on the live phase; the EndPhase
\* ignores it
on_cell_click(S, x, y, player_idx) ==
    LET is_own_board == player_idx = S.current_player_idx IN
    IF S.game_phase \in {PlacementPhase, ExtendedPlacementPhase}
    THEN placement_handle_cell_click(S, x, y, is_own_board)
    ELSE IF S.game_phase = ShootingPhase
    THEN standard_handle_cell_click(S, x, y, is_own_board)
    ELSE IF S.game_phase = ExtendedShootingPhase
    THEN extended_handle_cell_click(S, x, y, is_own_board)
    ELSE {S}

\* GameUI._auto_place_all_ships (the auto-place button)
auto_place_button(S) ==
    IF S.game_phase \notin {PlacementPhase, ExtendedPlacementPhase} THEN {S}
    ELSE UNION {placement_next_turn(S2) : S2 \in auto_place_all_ships(S)}

----------------------------------------------------------------------------
(* The Board interface on one grid: place_object, remove_object, shoot_at   *)
(* called in any order on objects that are not on the grid.                *)

BoardPool == <<"Destroyer", "Submarine", "Mine">>

InitBoard ==
    /\ grid = [p \in Players |-> EmptyGrid]
    /\ board_objects = [p \in Players |-> <<>>]
    /\ player_objects = [p \in Players |-> <<>>]
    /\ heap = [p \in Players |->
                 IF p = 0
                 THEN [i \in 1..Len(BoardPool) |-> NewObject(BoardPool[i], HORIZONTAL)]
                 ELSE <<>>]
    /\ op = [name |-> "init", ret |-> None]
    /\ settings = [mode |-> STANDARD,
                   players |-> [p \in Players |-> HumanPlayer],
                   game_objects |-> <<>>]
    /\ game_phase = NoUI
    /\ current_player_idx = 0
    /\ placement_object_idx = 0
    /\ ext = NewExt
    /\ available_targets = [p \in Players |-> {}]
    /\ pending_timers = <<>>
    /\ winner = -1
    /\ has_ended = FALSE
    /\ phase_log = <<>>
    /\ superseded = None
    /\ hunter = None

\* P = copy of a pool object, P.orientation = o, P.set_position(x, y), then
\* board.place_object(P); the pool object becomes P when the call succeeds
BoardPlaceObject(id, o, x, y) ==
    LET coords == set_position(heap[0][id].size, o, x, y)
        ok == can_place_object(grid[0], coords)
    IN
    /\ game_phase = NoUI
    /\ ~heap[0][id].is_placed
    /\ heap' = IF ok
               THEN [heap EXCEPT ![0][id] =
                        [@ EXCEPT !.orientation = o, !.coordinates = coords,
                                  !.is_placed = TRUE]]
               ELSE heap
    /\ grid' = IF ok THEN [grid EXCEPT ![0] = PlaceOnGrid(@, id, coords)] ELSE grid
    /\ board_objects' = IF ok THEN [board_objects EXCEPT ![0] = Append(@, id)]
                        ELSE board_objects
    /\ op' = [name |-> "place_object", ret |-> ok,
              before |-> [grid |-> grid[0], objects |-> board_objects[0]]]
    /\ UNCHANGED <<player_objects, gameVars>>

\* board.remove_object(obj)
BoardRemoveObject(id) ==
    /\ game_phase = NoUI
    /\ grid' = [grid EXCEPT ![0] = RemoveFromGrid(@, id, heap[0][id].coordinates)]
    /\ heap' = [heap EXCEPT ![0][id].is_placed = FALSE]
    /\ board_objects' = [board_objects EXCEPT ![0] = ListRemove(@, id)]
    /\ op' = [name |-> "remove_object", ret |-> None, obj |-> id,
              placed_before |-> (/\ op.name = "place_object"
                                 /\ op.ret
                                 /\ id = board_objects[0][Len(board_objects[0])])]
    /\ UNCHANGED <<player_objects, gameVars>>

ShotCountOf(G) == Cardinality({pc \in Players \X Cells : G[pc[1]][pc[2]].is_shot})
ShotCount == ShotCountOf(grid)
ShotsLeft == ShotCount < MaxShots

\* a shot that would mark a further cell needs ShotsLeft
ShotAllowed(p, x, y) ==
    IF get_cell(x, y) = None THEN TRUE
    ELSE IF grid[p][get_cell(x, y)].is_shot THEN TRUE
    ELSE ShotsLeft

\* board.shoot_at(x, y)
BoardShootAt(x, y) ==
    /\ game_phase = NoUI
    /\ ShotAllowed(0, x, y)
    /\ grid' = [grid EXCEPT ![0] = shoot_grid(@, x, y)]
    /\ heap' = [heap EXCEPT ![0] = shoot_objects(grid[0], @, x, y)]
    /\ op' = [name |-> "shoot_at", target |-> TargetState(grid[0], x, y),
              ret |-> shoot_result(grid[0], heap[0], x, y)]
    /\ UNCHANGED <<board_objects, player_objects, gameVars>>

\* the coordinates shots are fired at: every cell and one outside each edge
ShotInputs ==
    Cells \cup {<<-1, 0>>, <<BoardWidth, 0>>, <<0, -1>>, <<0, BoardHeight>>}

PlaceAny ==
    \E id \in 1..Len(BoardPool), o \in Orientations,
       x \in 0..(BoardWidth - 1), y \in 0..(BoardHeight - 1) :
       BoardPlaceObject(id, o, x, y)

\* placements in the order of the pool (objects may be left out)
PlaceInOrder ==
    \E id \in 1..Len(BoardPool), o \in Orientations,
       x \in 0..(BoardWidth - 1), y \in 0..(BoardHeight - 1) :
       /\ \A j \in Range(board_objects[0]) : j < id
       /\ BoardPlaceObject(id, o, x, y)

\* placements, then shots, in the order the phases issue them
NextBoard ==
    \/ ShotCount = 0 /\ PlaceInOrder
    \/ \E t \in ShotInputs : BoardShootAt(t[1], t[2])

SpecBoard == InitBoard /\ [][NextBoard]_vars

\* placements and removals (relocation of objects)
NextRelocate ==
    \/ PlaceAny
    \/ \E id \in 1..Len(BoardPool) : BoardRemoveObject(id)

SpecRelocate == InitBoard /\ [][NextRelocate]_vars

----------------------------------------------------------------------------
(* The game: GameUI and its handlers *)

\* a handler of the placement and shooting phases that marks further cells as
\* shot needs ShotCount < MaxShots, and one that schedules a shot leaves at
\* most MaxTimers pending
WithinShots(S) ==
    /\ (ShotCountOf(S.grid) > ShotCountOf(grid) /\ game_phase # EndPhase)
          => ShotCountOf(grid) < MaxShots
    /\ Len(S.pending_timers) <= IF S.settings.mode = EXTENDED
                                 THEN MaxTimersExtended ELSE MaxTimers

PlacementClasses == {PlacementPhase, ExtendedPlacementPhase}

\* where the object of index i of a fleet list stands in the layouts the
\* shooting is explored from: the ships upright from the top row in every
\* second column, the mines in the last column
LayoutCoordinates(o, i) ==
    IF IsMine(o) THEN <<(<<BoardWidth - 1, 2 * (i - FleetShips - 1)>>)>>
    ELSE set_position(o.size, VERTICAL, 2 * (i - 1), 0)

\* the shooting is explored from one layout: the clicks and the timers of the
\* shooting phases are taken up when both fleets stand as LayoutCoordinates
\* says (every placement that leads there is explored), and in extended mode
\* for two humans and for two computers
ExploredLayout ==
    /\ settings.mode = EXTENDED
          => \/ settings.players[0] = settings.players[1]
             \/ settings.players[1] = ImpossibleComputerPlayer
    /\ \A p \in Players : \A i \in 1..Len(player_objects[p]) :
          LET o == heap[p][player_objects[p][i]] IN
          /\ o.is_placed
          /\ o.coordinates = LayoutCoordinates(o, i)
    /\ \A i \in 1..Len(settings.game_objects) :
          settings.game_objects[i].name = "Mine"
              => settings.game_objects[i].orientation = HORIZONTAL

\* GameUI.__init__: no phase, no winner
InitGame ==
    /\ grid = [p \in Players |-> EmptyGrid]
    /\ board_objects = [p \in Players |-> <<>>]
    /\ player_objects = [p \in Players |-> <<>>]
    /\ heap = [p \in Players |-> <<>>]
    /\ op = NewOp("init", None)
    /\ settings = [mode |-> STANDARD,
                   players |-> [p \in Players |-> HumanPlayer],
                   game_objects |-> <<>>]
    /\ game_phase = NoPhase
    /\ current_player_idx = 0
    /\ placement_object_idx = 0
    /\ ext = NewExt
    /\ available_targets = [p \in Players |-> {}]
    /\ pending_timers = <<>>
    /\ winner = -1
    /\ has_ended = FALSE
    /\ phase_log = <<>>
    /\ superseded = None
    /\ hunter = None

\* the start button: GameUI.start_game
StartGame(mode, class0, class1) ==
    /\ game_phase = NoPhase
    /\ \E S2 \in start_game([State EXCEPT !.op = NewOp("start_game", None)],
                            mode, class0, class1) :
          Become(S2)

\* a click on cell (x, y) of the board of player_idx: GameUI.on_cell_click
CellClick(x, y, player_idx) ==
    /\ game_phase \notin {NoPhase, NoUI}
    /\ game_phase \in PlacementClasses \/ ExploredLayout
    /\ LET click == IF game_phase \in PlacementClasses
                    THEN [board |-> player_idx, x |-> x, y |-> y]
                    ELSE None
       IN \E S2 \in on_cell_click([State EXCEPT !.op = NewOp("on_cell_click", click)],
                                  x, y, player_idx) :
             /\ WithinShots(S2)
             /\ Become(S2)

\* the orientation button: PlacementPhase.toggle_orientation
ToggleOrientation ==
    /\ game_phase \in PlacementClasses
    /\ Become(toggle_orientation(
                 [State EXCEPT !.op = NewOp("toggle_orientation", None)]))

\* the auto-place button: GameUI._auto_place_all_ships
AutoPlaceButton ==
    /\ game_phase \in PlacementClasses
    /\ \E S2 \in auto_place_button(
                    [State EXCEPT !.op = NewOp("auto_place_all_ships", None)]) :
          Become(S2)

\* the confirmation button: ExtendedShootingPhase.confirm_ship_selection
ConfirmShipSelection ==
    /\ game_phase = ExtendedShootingPhase
    /\ ExploredLayout
    /\ Become(confirm_ship_selection(
                 [State EXCEPT !.op = NewOp("confirm_ship_selection", None)]))

\* the oldest window.after callback runs: execute_turn(x, y) of the shooting
\* phase that scheduled it
TimerFires ==
    /\ pending_timers # <<>>
    /\ ExploredLayout
    /\ LET t == Head(pending_timers) IN
       \E S2 \in shooting_execute_turn(
                    [State EXCEPT !.op = NewOp("timer", None),
                                  !.pending_timers = Tail(@)], t[1], t[2]) :
          /\ WithinShots(S2)
          /\ Become(S2)

\* the start button while a shooting phase with a scheduled shot is live:
\* GameUI.start_game makes new boards, players and a placement phase; the
\* replaced phase, its players and boards stay alive in the callbacks
\* window.after holds, and nothing cancels these. Explored for a restart
\* before the first shot of the phase has run
Restart ==
    /\ game_phase \in {ShootingPhase, ExtendedShootingPhase}
    /\ pending_timers # <<>>
    /\ superseded = None
    /\ ExploredLayout
    /\ ShotCount = 0
    /\ superseded' = [State EXCEPT !.op = NewOp("superseded", None),
                                   !.winner = -1,
                                   !.has_ended = FALSE,
                                   !.phase_log = <<>>]
    /\ \E S2 \in start_game([State EXCEPT !.op = NewOp("restart", None),
                                          !.pending_timers = <<>>,
                                          !.ext = NewExt],
                            settings.mode, settings.players[0],
                            settings.players[1]) :
          /\ BecomeLive(S2)
          /\ UNCHANGED hunter

\* the oldest callback of the superseded phase runs: execute_turn(x, y) on the
\* old players and boards. Its next_phase_callback is the method of the one
\* GameUI, so an End request of the old phase sets has_ended and winner of
\* the new match (winner = the current player of the live phase) and
\* replaces the live phase by an EndPhase
StaleTimerFires ==
    /\ superseded # None
    /\ superseded.pending_timers # <<>>
    /\ ExploredLayout
    /\ LET t == Head(superseded.pending_timers)
           old == [superseded EXCEPT !.op = NewOp("stale_timer", None),
                                     !.pending_timers = Tail(@)]
       IN \E S2 \in shooting_execute_turn(old, t[1], t[2]) :
             LET ended == S2.phase_log # <<>> IN
             /\ ShotCountOf(S2.grid) > ShotCountOf(superseded.grid)
                   => ShotCountOf(superseded.grid) < MaxShots
             /\ Len(S2.pending_timers) <= MaxTimersExtended
             /\ superseded' = [S2 EXCEPT !.op = NewOp("superseded", None),
                                         !.game_phase = superseded.game_phase,
                                         !.winner = -1,
                                         !.has_ended = FALSE,
                                         !.phase_log = <<>>]
             /\ op' = S2.op
             /\ has_ended' = (has_ended \/ ended)
             /\ winner' = IF ended /\ ~has_ended THEN current_player_idx
                          ELSE winner
             /\ game_phase' = IF ended THEN EndPhase ELSE game_phase
             /\ phase_log' = IF ended THEN Append(phase_log, EndPhase)
                             ELSE phase_log
             /\ UNCHANGED <<grid, board_objects, player_objects, heap,
                            settings, current_player_idx,
                            placement_object_idx, ext, available_targets,
                            pending_timers, hunter>>

\* matches of which one is restarted, without clicks on the boards; after the
\* restart the callbacks of the superseded phase are the ones that run
NextRestart ==
    \/ \E mode \in GameModes, class0 \in PlayerClasses, class1 \in PlayerClasses :
          StartGame(mode, class0, class1)
    \/ AutoPlaceButton
    \/ superseded = None /\ TimerFires
    \/ Restart
    \/ StaleTimerFires

SpecRestart == InitGame /\ [][NextRestart]_vars

\* a match up to the start of the shooting
NextPlace ==
    \/ \E mode \in GameModes, class0 \in PlayerClasses, class1 \in PlayerClasses :
          StartGame(mode, class0, class1)
    \/ \E c \in Cells, p \in Players :
          game_phase \in PlacementClasses /\ CellClick(c[1], c[2], p)
    \/ ToggleOrientation
    \/ AutoPlaceButton

SpecPlace == InitGame /\ [][NextPlace]_vars

\* a whole match
Next ==
    \/ \E mode \in GameModes, class0 \in PlayerClasses, class1 \in PlayerClasses :
          StartGame(mode, class0, class1)
    \/ \E c \in Cells, p \in Players : CellClick(c[1], c[2], p)
    \/ ToggleOrientation
    \/ AutoPlaceButton
    \/ ConfirmShipSelection
    \/ TimerFires

Spec == InitGame /\ [][Next]_vars

----------------------------------------------------------------------------
(* A computer player on its own: select_target called again and again *)

\* the variables of the match
matchVars == <<grid, board_objects, player_objects, heap, op, settings,
               game_phase, current_player_idx, placement_object_idx, ext,
               available_targets, pending_timers, winner, has_ended,
               phase_log, superseded>>

\* the variables of the match while no match is played
IdleUI ==
    /\ grid = [p \in Players |-> EmptyGrid]
    /\ board_objects = [p \in Players |-> <<>>]
    /\ player_objects = [p \in Players |-> <<>>]
    /\ heap = [p \in Players |-> <<>>]
    /\ op = NewOp("init", None)
    /\ settings = [mode |-> STANDARD,
                   players |-> [p \in Players |-> HumanPlayer],
                   game_objects |-> <<>>]
    /\ game_phase = NoPhase
    /\ current_player_idx = 0
    /\ placement_object_idx = 0
    /\ ext = NewExt
    /\ available_targets = [p \in Players |-> {}]
    /\ pending_timers = <<>>
    /\ winner = -1
    /\ has_ended = FALSE
    /\ phase_log = <<>>
    /\ superseded = None

\* sequences over a set up to a length
SeqsUpTo(S, n) == UNION {[1..k -> S] : k \in 0..n}

\* the placement heatmaps UserPlacementRepository.get_placement_heatmap may
\* hand back: counts for some coordinates, none for the others
HeatmapKeys == {<<0, 0>>, <<1, 0>>}
Heatmaps == UNION {[D -> 0..MaxFrequency] : D \in SUBSET HeatmapKeys}

\* a player of the class with its lists; returned holds the coordinates that
\* are no longer available, call the last call of select_target
NewHunter(class, avail, queue, heatmap, all) ==
    [class |-> class, available_targets |-> avail, search_queue |-> queue,
     current_direction |-> None, first_hit |-> None,
     placement_heatmap |-> heatmap, returned |-> all \ avail,
     call |-> None, board |-> None, target |-> None, shot |-> None]

\* select_target of the player's class
select_target(h) ==
    CASE h.class = EasyComputerPlayer ->
            easy_select_target(h.available_targets)
      [] h.class = MediumComputerPlayer ->
            medium_select_target(h.search_queue, h.available_targets)
      [] h.class = HardComputerPlayer ->
            hard_select_target(h.search_queue, h.available_targets,
                               h.placement_heatmap)

\* the player after a call of select_target that gave r
AfterSelect(h, r) ==
    [h EXCEPT !.available_targets = r.available_targets,
              !.search_queue = r.search_queue,
              !.returned = IF r.target = None THEN @ ELSE @ \cup {r.target},
              !.call = [search_queue |-> h.search_queue,
                        available_targets |-> h.available_targets,
                        target |-> r.target, branch |-> r.branch]]

InitSelect ==
    /\ IdleUI
    /\ \E class \in {EasyComputerPlayer, MediumComputerPlayer,
                     HardComputerPlayer},
          avail \in SUBSET Cells, queue \in SeqsUpTo(Cells, MaxQueue),
          heatmap \in Heatmaps :
          /\ class = EasyComputerPlayer => queue = <<>>
          /\ class # HardComputerPlayer => heatmap = <<>>
          /\ hunter = NewHunter(class, avail, queue, heatmap, Cells)

SelectTarget ==
    /\ hunter # None
    /\ hunter.board = None
    /\ \E r \in select_target(hunter) : hunter' = AfterSelect(hunter, r)
    /\ UNCHANGED matchVars

NextSelect == SelectTarget

SpecSelect == InitSelect /\ [][NextSelect]_vars

----------------------------------------------------------------------------
(* A hunt-and-target player shooting at a board with one ship, driven as    *)
(* ShootingPhase.execute_computer_turn and execute_turn drive it.           *)

\* the ships that fit on the board the player shoots at
HuntShips ==
    {n \in {"Battleship", "Cruiser", "Destroyer", "Submarine"} :
        Size(n) <= HuntWidth \/ Size(n) <= HuntHeight}

HuntCells == (0..(HuntWidth - 1)) \X (0..(HuntHeight - 1))

\* the opponent's board with one ship placed on it and some cells shot
HuntBoard(name, orientation, x, y, earlier) ==
    [width |-> HuntWidth, height |-> HuntHeight,
     object |-> [NewObject(name, orientation) EXCEPT
                    !.coordinates = set_position(Size(name), orientation, x, y),
                    !.is_placed = TRUE],
     is_shot |-> earlier]

\* Board.shoot_at and Cell.shoot on that board: the result and the board
\* after the shot
hunt_shoot_at(b, x, y) ==
    IF ~(0 <= x /\ x < b.width /\ 0 <= y /\ y < b.height)
    THEN [result |-> ShootResult(FALSE, FALSE, TRUE, NoObject), board |-> b]
    ELSE IF <<x, y>> \in b.is_shot
    THEN [result |-> ShootResult(FALSE, FALSE, FALSE, NoObject), board |-> b]
    ELSE IF <<x, y>> \in Range(b.object.coordinates)
    THEN [result |-> ShootResult(TRUE, is_destroyed(on_hit(b.object)),
                                 FALSE, 1),
          board |-> [b EXCEPT !.is_shot = @ \cup {<<x, y>>},
                              !.object = on_hit(@)]]
    ELSE [result |-> ShootResult(FALSE, FALSE, TRUE, NoObject),
          board |-> [b EXCEPT !.is_shot = @ \cup {<<x, y>>}]]

\* ShootingPhase.execute_turn for the player: the shot, and
\* process_shot_result only for an instance of HardComputerPlayer
hunt_execute_turn(h, x, y) ==
    LET r == hunt_shoot_at(h.board, x, y)
        shot == [h EXCEPT !.board = r.board,
                          !.target = None,
                          !.shot = [x |-> x, y |-> y, result |-> r.result,
                                    hits |-> h.board.object.hits,
                                    direction |-> h.current_direction]]
    IN IF h.class = HardComputerPlayer
       THEN process_shot_result(shot, x, y, r.result.hit,
                                r.result.is_destroyed,
                                IF r.result.hit_object # NoObject
                                THEN h.board.object.coordinates ELSE <<>>,
                                h.board.width, h.board.height)
       ELSE shot

\* the subsets of a set with up to n elements
RECURSIVE SubsetsUpTo(_, _)
SubsetsUpTo(S, n) ==
    IF n = 0 THEN {{}}
    ELSE LET smaller == SubsetsUpTo(S, n - 1)
         IN smaller \cup {e \cup {c} : e \in smaller, c \in S}

InitHunt ==
    /\ IdleUI
    /\ \E class \in {MediumComputerPlayer, HardComputerPlayer},
          name \in HuntShips, orientation \in Orientations,
          start \in HuntCells,
          earlier \in SubsetsUpTo(HuntCells, MaxEarlierShots) :
          LET b == HuntBoard(name, orientation, start[1], start[2], earlier)
          IN /\ Range(b.object.coordinates) \subseteq HuntCells
             /\ earlier \cap Range(b.object.coordinates) = {}
             /\ hunter = [NewHunter(class, HuntCells \ earlier, <<>>, <<>>,
                                    HuntCells) EXCEPT !.board = b]

\* execute_computer_turn: the player selects its next target
HuntSelect ==
    /\ hunter # None
    /\ hunter.board # None
    /\ hunter.target = None
    /\ ~is_destroyed(hunter.board.object)
    /\ \E r \in select_target(hunter) :
          hunter' = [AfterSelect(hunter, r) EXCEPT !.target = r.target]
    /\ UNCHANGED matchVars

\* the window.after callback: execute_turn on the selected target
HuntShoot ==
    /\ hunter # None
    /\ hunter.board # None
    /\ hunter.target # None
    /\ hunter' = hunt_execute_turn(hunter, hunter.target[1], hunter.target[2])
    /\ UNCHANGED matchVars

NextHunt == HuntSelect \/ HuntShoot

SpecHunt == InitHunt /\ [][NextHunt]_vars

----------------------------------------------------------------------------
(* Properties of the Board interface *)

\* the cells within one step (orthogonal or diagonal) of c, c included
Touching(c1, c2) ==
    /\ c1[1] - c2[1] \in -1..1
    /\ c1[2] - c2[2] \in -1..1

\* every coordinate is a cell of the grid and neither it nor a cell touching
\* it holds an object
FreeWithHalo(g, coords) ==
    \A i \in 1..Len(coords) :
        /\ coords[i] \in Cells
        /\ \A c \in Cells : Touching(c, coords[i]) => g[c].object = NoObject

DestroyerOnTopRow ==
    /\ heap[0][1].is_placed
    /\ heap[0][1].coordinates = <<(<<0, 0>>), (<<1, 0>>), (<<2, 0>>)>>

PlaceSucceededStep ==
    \E id \in 1..Len(heap[0]) :
        /\ ~heap[0][id].is_placed
        /\ heap'[0][id].is_placed
        /\ board_objects'[0] = Append(board_objects[0], id)
        /\ FreeWithHalo(grid[0], heap'[0][id].coordinates)

PlaceContractStep ==
    /\ (op'.name = "place_object" /\ op'.ret) => PlaceSucceededStep
    /\ (op'.name = "place_object" /\ ~op'.ret) =>
           UNCHANGED <<grid, board_objects, heap, player_objects, gameVars>>
    /\ (DestroyerOnTopRow /\ BoardPlaceObject(2, HORIZONTAL, 1, 1)) => ~op'.ret

\* C1: place_object returns true only if, just before the call, every
\* coordinate of the object was in bounds and free and no cell touching it
\* (8-neighbourhood) was occupied; when it returns false neither the grid
\* nor the registry nor any object changes. With the Destroyer on
\* (0,0),(1,0),(2,0), placing the Submarine at (1,1) returns false.
C1_PlaceContract == [][PlaceContractStep]_vars

\* a placement next to an object already on the grid was rejected
C1_Witness ==
    /\ op.name = "place_object"
    /\ ~op.ret
    /\ DestroyerOnTopRow
    /\ ~heap[0][2].is_placed

\* the number of an object's cells that are marked shot
ShotCellsOf(p, id) ==
    Cardinality({c \in Cells : grid[p][c].object = id /\ grid[p][c].is_shot})

InvalidShotStep ==
    (op'.name = "shoot_at" /\ op'.target \in {"outside", "shot"})
    => (/\ ~op'.ret.hit
        /\ ~op'.ret.is_destroyed
        /\ UNCHANGED <<grid, heap, board_objects, player_objects, gameVars>>)

OneHitPerCell ==
    \A id \in 1..Len(heap[0]) :
        /\ IsShip(heap[0][id]) => heap[0][id].hits = ShotCellsOf(0, id)
        /\ IsMine(heap[0][id]) => (heap[0][id].triggered <=> ShotCellsOf(0, id) = 1)

\* C3: shoot_at on an already shot cell or outside the grid returns hit=false
\* and destroyed=false and changes no cell and no object; so each cell adds
\* at most one hit to the object on it: a ship has as many hits as cells of
\* it that are marked shot.
C3_ShotIdempotent == [][InvalidShotStep]_vars /\ []OneHitPerCell

\* a cell of a hit, undestroyed ship was shot a second time
C3_Witness ==
    /\ op.name = "shoot_at"
    /\ op.target = "shot"
    /\ \E id \in 1..Len(heap[0]) : heap[0][id].hits = 1 /\ heap[0][id].size > 1

----------------------------------------------------------------------------
(* The registry of a grid *)

\* the Board interface and the placement phases, each from its own start
\* matches of a human against the Impossible computer
NextImpossible ==
    \/ \E mode \in GameModes :
          StartGame(mode, HumanPlayer, ImpossibleComputerPlayer)
    \/ \E c \in Cells, p \in Players : CellClick(c[1], c[2], p)
    \/ ToggleOrientation
    \/ AutoPlaceButton
    \/ ConfirmShipSelection
    \/ TimerFires

SpecImpossible == InitGame /\ [][NextImpossible]_vars

\* the layout in which the mines found no place: each Submarine lies at
\* (0,0),(1,0), which leaves no cell of the board that is not next to it
DeadEndLayout ==
    /\ settings.players = [p \in Players |-> EasyComputerPlayer]
    /\ \A p \in Players : \A i \in 1..Len(player_objects[p]) :
          LET o == heap[p][player_objects[p][i]] IN
          IF IsMine(o) THEN ~o.is_placed
          ELSE o.is_placed /\ o.coordinates = set_position(o.size, HORIZONTAL, 0, 0)

\* the window.after callback in a match with that layout, down to the last
\* cell of the boards
ExhaustTimerFires ==
    /\ pending_timers # <<>>
    /\ DeadEndLayout
    /\ LET t == Head(pending_timers) IN
       \E S2 \in shooting_execute_turn(
                    [State EXCEPT !.op = NewOp("timer", None),
                                  !.pending_timers = Tail(@)], t[1], t[2]) :
          /\ Len(S2.pending_timers) <= MaxTimersExtended
          /\ Become(S2)

\* extended matches of two Easy computers, played until no target is left
NextExhaust ==
    \/ StartGame(EXTENDED, EasyComputerPlayer, EasyComputerPlayer)
    \/ ExhaustTimerFires

SpecExhaust == InitGame /\ [][NextExhaust]_vars

\* the window.after callback in a match of two computers, played to the end
MatchTimerFires ==
    /\ pending_timers # <<>>
    /\ ExploredLayout
    /\ LET t == Head(pending_timers) IN
       \E S2 \in shooting_execute_turn(
                    [State EXCEPT !.op = NewOp("timer", None),
                                  !.pending_timers = Tail(@)], t[1], t[2]) :
          /\ Len(S2.pending_timers) <= MaxTimersExtended
          /\ Become(S2)

\* standard and extended matches of two Easy computers, played to the end
NextMatch ==
    \/ \E mode \in GameModes :
          StartGame(mode, EasyComputerPlayer, EasyComputerPlayer)
    \/ MatchTimerFires

SpecMatch == InitGame /\ [][NextMatch]_vars

\* next_phase_callback called with a type that is no phase of the match: the
\* abstract base class
InvalidPhaseRequest ==
    /\ game_phase # NoPhase
    /\ \E S2 \in next_phase_callback(
                    [State EXCEPT !.op = NewOp("next_phase_callback", None)],
                    GamePhase) :
          Become(S2)

\* matches in which such a request may come at any time
NextRequest == Next \/ InvalidPhaseRequest

SpecRequest == InitGame /\ [][NextRequest]_vars

SpecBoards == (InitBoard \/ InitGame) /\ [][NextRelocate \/ NextPlace]_vars

\* the coordinates of the objects in the registry of player p's grid
RegistryCells(p, id) == Range(heap[p][id].coordinates)

NoTwoTouch(p) ==
    \A i \in 1..Len(board_objects[p]), j \in 1..Len(board_objects[p]) :
        i # j =>
            /\ board_objects[p][i] # board_objects[p][j]
            /\ \A c1 \in RegistryCells(p, board_objects[p][i]),
                  c2 \in RegistryCells(p, board_objects[p][j]) :
                  ~Touching(c1, c2)

OccupiedInBounds(p) ==
    /\ \A id \in Range(board_objects[p]) :
          \A c \in RegistryCells(p, id) :
              c \in Cells /\ grid[p][c].object = id
    /\ \A c \in Cells :
          grid[p][c].object # NoObject =>
              /\ grid[p][c].object \in Range(board_objects[p])
              /\ c \in RegistryCells(p, grid[p][c].object)

\* C2: in every reachable state of a grid, after any place_object and
\* remove_object calls and after any placement phase (clicks, auto-place
\* button, computer batch placement, standard or extended fleet), no two
\* distinct objects of the registry share a cell or have touching cells
\* (orthogonally or diagonally), and every occupied cell is in bounds.
C2_RegistryApart == \A p \in Players : NoTwoTouch(p) /\ OccupiedInBounds(p)

\* an extended placement phase is complete with two objects on either grid
C2_Witness ==
    /\ game_phase = ExtendedShootingPhase
    /\ \A p \in Players : Len(board_objects[p]) = 2

----------------------------------------------------------------------------
(* Properties of the phases *)

ShootingClasses == {ShootingPhase, ExtendedShootingPhase}

\* the step fired a shot (a click that was taken up, or a timer)
ShotFired == op'.shot # None

StandardTurnStep ==
    (game_phase = ShootingPhase /\ game_phase' = ShootingPhase /\ ShotFired)
    => current_player_idx' = IF op'.shot.hit THEN current_player_idx
                             ELSE 1 - current_player_idx

\* C4: in standard Shooting, for every shot that does not end the game, a
\* miss flips current_player_idx and a hit leaves it unchanged.
C4_StandardTurns == [][StandardTurnStep]_vars

\* a hit that did not end the match, and the player who fired it is current
C4_Witness ==
    /\ game_phase = ShootingPhase
    /\ op.shot # None
    /\ op.shot.hit
    /\ current_player_idx = 1 - op.shot.board

EndAfterShotStep ==
    (game_phase \in ShootingClasses /\ ShotFired /\ game_over(State)')
    => /\ game_phase' = EndPhase
       /\ phase_log' = Append(phase_log, EndPhase)
       /\ Len(pending_timers') <= Len(pending_timers)
       /\ winner' = current_player_idx

\* C5: in Shooting (standard and extended), after every shot, if either
\* player has lost the transition to End is requested, no further shot is
\* scheduled, and the recorded winner is the player who fired that shot.
C5_WinnerFiredLast == [][EndAfterShotStep]_vars

RepeatedShotStep ==
    /\ (game_phase = ShootingPhase /\ ShotFired /\ op'.shot.target = "shot")
       => /\ UNCHANGED <<grid, current_player_idx>>
          /\ op'.callbacks = <<>>
    /\ \A c \in Cells :
          (/\ game_phase = ShootingPhase
           /\ grid[1 - current_player_idx][c].is_shot
           /\ CellClick(c[1], c[2], 1 - current_player_idx))
          => UNCHANGED <<grid, heap, current_player_idx, pending_timers>>

Rank(phase) ==
    CASE phase \in {NoPhase, NoUI} -> 0
      [] phase \in PlacementClasses -> 1
      [] phase \in ShootingClasses -> 2
      [] phase = EndPhase -> 3

PhaseOfMode(phase, mode) ==
    /\ phase \in {PlacementPhase, ShootingPhase} => mode = STANDARD
    /\ phase \in {ExtendedPlacementPhase, ExtendedShootingPhase} => mode = EXTENDED

\* the requests: first the shooting phase of the mode, then only End
RequestsInOrder ==
    /\ PhaseOfMode(game_phase, settings.mode)
    /\ \A i \in 1..Len(phase_log) :
          IF i = 1
          THEN phase_log[i] \in ShootingClasses
               /\ PhaseOfMode(phase_log[i], settings.mode)
          ELSE phase_log[i] = EndPhase
    /\ Rank(game_phase) >= 2 => game_phase = phase_log[Len(phase_log)]
    /\ Rank(game_phase) < 2 => phase_log = <<>>

\* C7: within one match the live phase only moves forward along Placement,
\* Shooting, End (the extended classes in extended mode): the phase requested
\* when placement completes is the shooting phase of the mode, the phase
\* requested when shooting completes is End, and no step leads back.
C7_PhasesForward ==
    /\ []RequestsInOrder
    /\ [][Rank(game_phase') >= Rank(game_phase)]_vars

\* a standard match went through its three phases
C7_Witness ==
    /\ game_phase = EndPhase
    /\ settings.mode = STANDARD
    /\ phase_log = <<ShootingPhase, EndPhase>>

\* C8: in Placement player 0 places first; current_player_idx is 1 exactly
\* from the moment player 0's index reached the fleet length (the index
\* starts again at 0); the shooting phase is requested once, when player 1's
\* index reaches the fleet length, for humans and computers alike; no shot
\* is fired or scheduled before.
C8_PlacementOrder ==
    LET n == Len(settings.game_objects) IN
    /\ game_phase \in PlacementClasses =>
          /\ placement_object_idx < n
          /\ Len(player_objects[current_player_idx]) = placement_object_idx
          /\ Len(player_objects[1 - current_player_idx]) =
                IF current_player_idx = 0 THEN 0 ELSE n
          /\ phase_log = <<>>
          /\ ShotCount = 0
          /\ pending_timers = <<>>
    /\ game_phase \in ShootingClasses \cup {EndPhase} =>
          /\ \A p \in Players : Len(player_objects[p]) = n
          /\ Cardinality({i \in 1..Len(phase_log) :
                             phase_log[i] \in ShootingClasses}) = 1

\* a human has placed the fleet, the computer its own, no shot is fired yet
C8_Witness ==
    /\ game_phase = ShootingPhase
    /\ settings.players[0] = HumanPlayer
    /\ settings.players[1] = EasyComputerPlayer
    /\ ShotCount = 0
    /\ phase_log = <<ShootingPhase>>

\* the coordinates a click at (x, y) gives the object that is placed next
ClickCoordinates(x, y) ==
    set_position(Size(current_object(State).name),
                 current_object(State).orientation, x, y)

InvalidPlacementStep ==
    (/\ op'.name = "on_cell_click"
     /\ game_phase \in PlacementClasses
     /\ settings.players[current_player_idx] = HumanPlayer
     /\ op'.click.board = current_player_idx
     /\ ~FreeWithHalo(grid[current_player_idx],
                      ClickCoordinates(op'.click.x, op'.click.y)))
    => /\ op'.callbacks = <<(<<FALSE, FALSE>>)>>
       /\ UNCHANGED <<grid, heap, board_objects, player_objects,
                      placement_object_idx, current_player_idx>>

\* C9: a human placement attempt whose coordinates are out of bounds,
\* overlap an object or touch one is rejected: the turn callback gets
\* action_succeeded = false and the grid, the fleet list, the fleet index
\* and current_player_idx are unchanged.
C9_InvalidPlacement == [][InvalidPlacementStep]_vars

\* a click of a human was rejected with an object already on the grid
C9_Witness ==
    /\ game_phase \in PlacementClasses
    /\ op.name = "on_cell_click"
    /\ op.callbacks = <<(<<FALSE, FALSE>>)>>
    /\ Len(board_objects[current_player_idx]) = 1

\* the names of the objects on player p's grid, in the order of placement
PlacedNames(p) ==
    [i \in 1..Len(board_objects[p]) |-> heap[p][board_objects[p][i]].name]

\* C10: during Placement the objects a player has placed are, in order, a
\* prefix of the fleet sequence (Battleship, Cruiser x2, Destroyer x3,
\* Submarine x4, in extended mode Mine x3); the index advances by one with
\* every successful placement, so a player completes placement with every
\* object of the fleet on the grid.
C10_FleetPrefix ==
    /\ create_game_objects(STANDARD) =
          <<"Battleship", "Cruiser", "Cruiser", "Destroyer", "Destroyer",
            "Destroyer", "Submarine", "Submarine", "Submarine", "Submarine">>
    /\ create_game_objects(EXTENDED) =
          create_game_objects(STANDARD) \o <<"Mine", "Mine", "Mine">>
    /\ game_phase \notin {NoPhase, NoUI} =>
          \A p \in Players :
              /\ Len(board_objects[p]) <= Len(settings.game_objects)
              /\ \A i \in 1..Len(board_objects[p]) :
                    PlacedNames(p)[i] = settings.game_objects[i].name
              /\ (game_phase \in PlacementClasses /\ p = current_player_idx)
                    => Len(board_objects[p]) = placement_object_idx
              /\ game_phase \in ShootingClasses
                    => Len(board_objects[p]) = Len(settings.game_objects)

----------------------------------------------------------------------------
(* Properties of ExtendedShootingPhase *)

\* the number of shots the turn of the current player has: the size of the
\* confirmed ship, one without a ship
Allowance ==
    IF ext.shooting_ship = NoObject THEN 1
    ELSE heap[current_player_idx][ext.shooting_ship].size

\* the shot of this step landed on a mine
MineHitStep ==
    /\ ShotFired
    /\ op'.shot.hit
    /\ IsMine(heap[op'.shot.board][op'.shot.hit_object])

\* the cells of board p that are shot
MarksOn(p) == Cardinality({c \in Cells : grid[p][c].is_shot})

ShotsWithinAllowance ==
    game_phase = ExtendedShootingPhase
        => /\ ext.shot < Allowance
           /\ ext.shooting_ship = NoObject => ext.shot = 0

AllowanceStep ==
    game_phase = ExtendedShootingPhase =>
       IF ShotFired
       THEN (game_phase' = ExtendedShootingPhase /\ ~MineHitStep)
            => IF ext.shot + 1 = Allowance
               THEN /\ current_player_idx' = 1 - current_player_idx
                    /\ ext'.shot = 0
               ELSE /\ current_player_idx' = current_player_idx
                    /\ ext'.shot = ext.shot + 1
                    /\ ext'.shooting_ship = ext.shooting_ship
       ELSE game_phase' = ExtendedShootingPhase
            => /\ current_player_idx' = current_player_idx
               /\ ext'.shot = ext.shot
               /\ ext.shot > 0 => ext'.shooting_ship = ext.shooting_ship

\* C11: in ExtendedShootingPhase the turn holds exactly as many shots as the
\* size of the confirmed ship (one without a ship), hits and misses alike:
\* the shot that uses up the allowance passes the turn, no earlier shot and no
\* other step does, unless the shot lands on a mine or ends the match
C11_ShotAllowance == []ShotsWithinAllowance /\ [][AllowanceStep]_vars

\* the second shot of a two-cell ship missed and passed the turn: both marks
\* are on the board of the player who is current now
C11_Witness ==
    /\ game_phase = ExtendedShootingPhase
    /\ op.shot # None
    /\ ~op.shot.hit
    /\ current_player_idx = op.shot.board
    /\ MarksOn(op.shot.board) = 2
    /\ MarksOn(1 - op.shot.board) = 0
    /\ \A id \in DOMAIN heap[op.shot.board] : heap[op.shot.board][id].hits = 0

MineExplosionStep ==
    (game_phase = ExtendedShootingPhase /\ MineHitStep
        /\ ext.shooting_ship # NoObject)
    => LET p == current_player_idx
           ship == heap[p][ext.shooting_ship]
       IN /\ heap'[p][ext.shooting_ship].hits = ship.size
          /\ \A i \in 1..Len(ship.coordinates) :
                grid'[p][ship.coordinates[i]].is_shot
          /\ current_player_idx' = 1 - p
          /\ ext'.shot = 0

\* C12: a shot of ExtendedShootingPhase that lands on a mine destroys the
\* confirmed ship of the player who fired (hits = size, every cell of the ship
\* shot on that player's own grid) and passes the turn in the same step,
\* whatever is left of the allowance
C12_MineExplosion == [][MineExplosionStep]_vars

\* the first shot of a two-cell ship landed on the mine: the only mark on the
\* opponent's board is the mine, the two marks on the own board are the ship
C12_Witness ==
    /\ op.shot # None
    /\ op.shot.hit
    /\ IsMine(heap[op.shot.board][op.shot.hit_object])
    /\ MarksOn(op.shot.board) = 1
    /\ MarksOn(1 - op.shot.board) = 2
    /\ current_player_idx = op.shot.board
    /\ \E id \in DOMAIN heap[1 - op.shot.board] :
          LET ship == heap[1 - op.shot.board][id] IN
          /\ IsShip(ship)
          /\ ship.hits = ship.size
          /\ \A i \in 1..Len(ship.coordinates) :
                grid[1 - op.shot.board][ship.coordinates[i]].is_shot

\* the first shot of a turn with a confirmed two-cell ship misses and the
\* match goes on
FirstShotMissesStep ==
    /\ game_phase = ExtendedShootingPhase
    /\ ext.shooting_ship # NoObject
    /\ Allowance = 2
    /\ ext.shot = 0
    /\ ShotFired
    /\ ~op'.shot.hit
    /\ game_phase' = ExtendedShootingPhase

\* C13 as stated: with a confirmed ship of size 2 a miss with the first shot
\* passes the turn to the other player
C13_MissPassesTurn ==
    [][FirstShotMissesStep
          => current_player_idx' = 1 - current_player_idx]_vars

\* C13: with a confirmed ship of size 2 a miss with the first shot leaves the
\* turn with the player who fired, who has one shot of the same ship left
C13_MissKeepsTurn ==
    [][FirstShotMissesStep
          => /\ current_player_idx' = current_player_idx
             /\ ext'.shot = 1
             /\ ext'.shooting_ship = ext.shooting_ship]_vars

\* after a miss the player who fired is still current, with one shot counted
C13_Witness ==
    /\ game_phase = ExtendedShootingPhase
    /\ op.shot # None
    /\ ~op.shot.hit
    /\ current_player_idx = 1 - op.shot.board
    /\ ext.shooting_ship # NoObject
    /\ ext.shot = 1
    /\ Allowance = 2

\* the last step passed the turn to the current player, who is human: no
\* selection has been confirmed in this turn
TurnJustPassedToHuman ==
    /\ game_phase = ExtendedShootingPhase
    /\ op.shot # None
    /\ current_player_idx = op.shot.board
    /\ ~IsComputerPlayer(State, current_player_idx)

UnconfirmedShotStep ==
    TurnJustPassedToHuman /\ op'.name = "on_cell_click" => ~ShotFired

\* C14: in every turn of a human player of ExtendedShootingPhase a click on
\* the opponent's board fires no shot before that player has confirmed a
\* selection in this turn; here for the click that directly follows the shot
\* that passed the turn
C14_ConfirmEveryTurn == [][UnconfirmedShotStep]_vars

\* a step that confirms a shooting ship: the confirmation button, or the
\* random choice of a computer whose shot is scheduled in this step
ConfirmsShip ==
    /\ game_phase' = ExtendedShootingPhase
    /\ ext'.shooting_ship # NoObject
    /\ \/ op'.name = "confirm_ship_selection"
       \/ /\ Len(pending_timers') > Len(pending_timers) - (IF op'.name = "timer" THEN 1 ELSE 0)
          /\ ext'.shot = 0

ConfirmedShipStep ==
    ConfirmsShip
    => LET ship == heap'[current_player_idx'][ext'.shooting_ship] IN
       /\ IsShip(ship)
       /\ ~is_destroyed(ship)

\* C15: the ship confirmed as the shooting ship of a turn is a ship of the
\* current player that is not destroyed when it is confirmed, for the
\* confirmation button and for the random choice of a computer
C15_ConfirmedShipAlive == [][ConfirmedShipStep]_vars

----------------------------------------------------------------------------
(* Properties of EndPhase and of the end of a match *)

\* C17: once the live phase is EndPhase no click, button or timer changes a
\* grid, an object, a fleet list, a registry or the recorded winner
C17_EndTerminal ==
    [][game_phase = EndPhase
          => UNCHANGED <<grid, heap, player_objects, board_objects, winner>>]_vars

\* every entry of the fleet list of p is a ship with all its hits or a
\* triggered mine
AllDestroyed(p) ==
    \A id \in Range(player_objects[p]) :
        /\ IsShip(heap[p][id]) => heap[p][id].hits >= heap[p][id].size
        /\ IsMine(heap[p][id]) => heap[p][id].triggered

\* C18: has_lost of a player holds exactly when every object of the fleet
\* list is destroyed (so for an empty list, and not while a ship or a mine is
\* left), and game_over exactly when one of the two players has lost
C18_HasLost ==
    /\ \A p \in Players :
          /\ has_lost(State, p) <=> AllDestroyed(p)
          /\ player_objects[p] = <<>> => has_lost(State, p)
          /\ (\E id \in Range(player_objects[p]) : ~is_destroyed(heap[p][id]))
                => ~has_lost(State, p)
    /\ game_over(State) <=> (AllDestroyed(0) \/ AllDestroyed(1))

\* a sunk ship next to a mine that is not triggered: the player has not lost
C18_Witness ==
    /\ game_phase \in ShootingClasses
    /\ ~game_over(State)
    /\ \E p \in Players :
          \E s \in Range(player_objects[p]), m \in Range(player_objects[p]) :
             /\ IsShip(heap[p][s]) /\ heap[p][s].hits = heap[p][s].size
             /\ IsMine(heap[p][m]) /\ ~heap[p][m].triggered

\* the shot cells of object id on the board of p after the step
ShotCellsAfter(p, id) ==
    Cardinality({c \in Cells : grid'[p][c].object = id /\ grid'[p][c].is_shot})

HitsWithinSize ==
    \A p \in Players : \A id \in DOMAIN heap[p] :
        IsShip(heap[p][id])
            => /\ heap[p][id].hits \in 0..heap[p][id].size
               /\ is_destroyed(heap[p][id])
                     <=> heap[p][id].hits = heap[p][id].size

\* a shot hits a ship that so far was hit through shoot_at only
ShipHitStep ==
    /\ ShotFired
    /\ op'.shot.hit
    /\ IsShip(heap[op'.shot.board][op'.shot.hit_object])
    /\ heap[op'.shot.board][op'.shot.hit_object].hits
          = ShotCellsOf(op'.shot.board, op'.shot.hit_object)

LastCellStep ==
    ShipHitStep
    => LET b == op'.shot.board
           id == op'.shot.hit_object
       IN /\ heap'[b][id].hits = heap[b][id].hits + 1
          /\ op'.shot.is_destroyed <=> ShotCellsAfter(b, id) = heap[b][id].size
          /\ op'.shot.is_destroyed <=> is_destroyed(heap'[b][id])

\* C19: the hits of a ship stay within 0..size and the ship is destroyed
\* exactly with hits = size, also after Ship.destroy and after shots at a
\* destroyed ship; a ship hit through shoot_at only is reported destroyed by
\* the shot at its last unshot cell and by no earlier one
C19_HitsAndDestroyed == []HitsWithinSize /\ [][LastCellStep]_vars

\* the second hit on a two-cell ship was reported as destroying it
C19_Witness ==
    /\ op.shot # None
    /\ op.shot.hit
    /\ op.shot.is_destroyed
    /\ IsShip(heap[op.shot.board][op.shot.hit_object])
    /\ heap[op.shot.board][op.shot.hit_object].size = 2
    /\ heap[op.shot.board][op.shot.hit_object].hits = 2
    /\ ShotCellsOf(op.shot.board, op.shot.hit_object) = 2
    /\ MarksOn(1 - op.shot.board) = 0

----------------------------------------------------------------------------
(* Properties of shots at empty cells *)

\* the result shoot_at gave for cell t when t was shot first
FirstResult(t) ==
    shoot_result([grid[0] EXCEPT ![t].is_shot = FALSE], heap[0], t[1], t[2])

EmptyCellShotStep ==
    \A t \in Cells :
       (grid[0][t].object = NoObject /\ BoardShootAt(t[1], t[2]))
       => IF grid[0][t].is_shot
          THEN /\ op'.ret = FirstResult(t)
               /\ UNCHANGED <<grid, heap>>
          ELSE /\ ~op'.ret.hit
               /\ ~op'.ret.is_destroyed

\* C20: the first shot at an empty cell of the grid reports no hit and nothing
\* destroyed; a further shot at the cell returns the same result, field by
\* field, and changes nothing
C20_EmptyCellShot == [][EmptyCellShotStep]_vars

----------------------------------------------------------------------------
(* Properties of a restarted match *)

StaleCallbackStep ==
    op'.name = "stale_timer"
    => /\ op'.shot = None
       /\ op'.callbacks = <<>>
       /\ superseded'.grid = superseded.grid
       /\ superseded'.heap = superseded.heap
       /\ superseded'.current_player_idx = superseded.current_player_idx
       /\ UNCHANGED <<grid, heap, game_phase, phase_log, winner, has_ended>>

\* C16: after a new match has started, a callback scheduled by the superseded
\* phase fires no shot, changes no grid and no player, calls neither the turn
\* callback nor the phase callback and leaves the live phase of the new match
\* in place
C16_StaleCallbackInert == [][StaleCallbackStep]_vars

----------------------------------------------------------------------------
(* Properties of select_target *)

\* a call of select_target of the class on a player with targets
SelectCall(class) ==
    /\ hunter # None
    /\ hunter.class = class
    /\ hunter.board = None
    /\ hunter' # hunter

\* the call took its result, and nothing else, out of available_targets, the
\* result was not returned before, and the other fields are as they were
EasySelectStep ==
    (SelectCall(EasyComputerPlayer) /\ hunter.available_targets # {}) =>
        LET target == hunter'.call.target IN
        /\ target \in hunter.available_targets
        /\ target \notin hunter.returned
        /\ hunter'.available_targets = hunter.available_targets \ {target}
        /\ Cardinality(hunter.available_targets) = 1
              => /\ hunter.available_targets = {target}
                 /\ hunter'.available_targets = {}
        /\ hunter'.search_queue = hunter.search_queue
        /\ hunter'.current_direction = hunter.current_direction
        /\ hunter'.first_hit = hunter.first_hit

\* C24: EasyComputerPlayer.select_target on a non-empty available_targets
\* returns one of its elements and removes exactly that element; from one
\* element it returns that element and leaves the list empty; no coordinate
\* is returned twice and no other field of the player changes
C24_EasySelect == [][EasySelectStep]_vars

\* the Easy computer has just taken the only target it had left
C24_Witness ==
    /\ hunter # None
    /\ hunter.class = EasyComputerPlayer
    /\ hunter.call # None
    /\ Cardinality(hunter.call.available_targets) = 1
    /\ hunter.call.target \in hunter.call.available_targets
    /\ hunter.available_targets = {}

\* the coordinates a call of select_target on the player can return
Returnable(h) == {r.target : r \in select_target(h)}

\* C27: for the statistical Hard computer with an empty search queue and
\* targets left, the coordinates select_target can return are exactly
\* available_targets, whatever the placement heatmap holds (counts of 0 and
\* missing coordinates included), and the returned coordinate, and no other,
\* is removed from available_targets
C27_HeatmapIsBias ==
    (/\ hunter # None
     /\ hunter.class = HardComputerPlayer
     /\ hunter.board = None
     /\ hunter.search_queue = <<>>
     /\ hunter.available_targets # {}) =>
        /\ Returnable(hunter) = hunter.available_targets
        /\ \A r \in select_target(hunter) :
              r.available_targets = hunter.available_targets \ {r.target}
        /\ hunter.call # None /\ hunter.call.search_queue = <<>>
              => /\ hunter.call.target \in hunter.call.available_targets
                 /\ hunter.available_targets =
                        hunter.call.available_targets \ {hunter.call.target}

\* the Hard computer, its queue empty, has returned a coordinate the heatmap
\* counts 0 times while another target has a positive count
C27_Witness ==
    /\ hunter # None
    /\ hunter.class = HardComputerPlayer
    /\ hunter.call # None
    /\ hunter.call.search_queue = <<>>
    /\ hunter.call.target \in DOMAIN hunter.placement_heatmap
    /\ hunter.placement_heatmap[hunter.call.target] = 0
    /\ \E t \in hunter.call.available_targets \cap DOMAIN hunter.placement_heatmap :
          hunter.placement_heatmap[t] > 0
    /\ \E t \in hunter.call.available_targets : t \notin DOMAIN hunter.placement_heatmap

\* the first entry of a queue that is in a set, or None
RECURSIVE FirstAvailable(_, _)
FirstAvailable(queue, avail) ==
    IF queue = <<>> THEN None
    ELSE IF Head(queue) \in avail THEN Head(queue)
    ELSE FirstAvailable(Tail(queue), avail)

\* the queue behind its first entry that is in a set, empty without one
RECURSIVE BehindFirstAvailable(_, _)
BehindFirstAvailable(queue, avail) ==
    IF queue = <<>> THEN <<>>
    ELSE IF Head(queue) \in avail THEN Tail(queue)
    ELSE BehindFirstAvailable(Tail(queue), avail)

\* a call of select_target of a hunt-and-target player: the first available
\* queue entry wins, the entries before it are dropped; a random available
\* target without one; None without targets; the result leaves
\* available_targets and was not returned before
HuntSelectStep ==
    (SelectCall(MediumComputerPlayer) \/ SelectCall(HardComputerPlayer)) =>
        LET target == hunter'.call.target
            first == FirstAvailable(hunter.search_queue,
                                    hunter.available_targets)
        IN /\ first # None
                 => /\ target = first
                    /\ hunter'.call.branch = "queue"
           /\ hunter'.search_queue =
                 BehindFirstAvailable(hunter.search_queue,
                                      hunter.available_targets)
           /\ (first = None /\ hunter.available_targets # {})
                 => /\ target \in hunter.available_targets
                    /\ hunter'.call.branch = "random"
           /\ target = None <=> hunter.available_targets = {}
           /\ target # None
                 => /\ target \notin hunter.returned
                    /\ hunter'.available_targets =
                          hunter.available_targets \ {target}
           /\ target = None
                 => hunter'.available_targets = hunter.available_targets

\* C29: select_target of the hunt-and-target players returns the first entry
\* of search_queue that is still in available_targets and drops the entries
\* before it; it returns a random element of available_targets only when the
\* queue holds no available entry, and None only when available_targets is
\* empty; the result is removed from available_targets and was never
\* returned before
C29_QueueFirst == [][HuntSelectStep]_vars

\* the player skipped a queue entry that was no longer available and
\* returned the entry behind it
C29_Witness ==
    /\ hunter # None
    /\ hunter.class \in {MediumComputerPlayer, HardComputerPlayer}
    /\ hunter.call # None
    /\ Len(hunter.call.search_queue) = 2
    /\ hunter.call.search_queue[1] \notin hunter.call.available_targets
    /\ hunter.call.target = hunter.call.search_queue[2]
    /\ hunter.call.branch = "queue"

----------------------------------------------------------------------------
(* Properties of the hunt *)

\* the player has just processed the shot it fired
Processed ==
    /\ hunter # None
    /\ hunter.board # None
    /\ hunter.class = HardComputerPlayer
    /\ hunter.target = None
    /\ hunter.shot # None

\* the shot just processed was the first hit on the ship and left it afloat
FirstHitProcessed ==
    /\ Processed
    /\ hunter.shot.result.hit
    /\ hunter.shot.hits = 0
    /\ ~hunter.shot.result.is_destroyed

\* two coordinates next to each other in a row or in a column
Orthogonal(c, d) ==
    \/ c[1] = d[1] /\ (c[2] - d[2] = 1 \/ d[2] - c[2] = 1)
    \/ c[2] = d[2] /\ (c[1] - d[1] = 1 \/ d[1] - c[1] = 1)

\* C21: right after the hunt-and-target player has processed the first hit
\* on a ship of size 2 or more that is not destroyed, every entry of
\* search_queue is on the board, is a cell that has not been shot, and is
\* an orthogonal neighbour of the cell that was hit
C21_QueueAfterFirstHit ==
    FirstHitProcessed =>
        /\ hunter.first_hit = <<hunter.shot.x, hunter.shot.y>>
        /\ \A i \in 1..Len(hunter.search_queue) :
              /\ hunter.search_queue[i] \in HuntCells
              /\ hunter.search_queue[i] \notin hunter.board.is_shot
              /\ hunter.search_queue[i] \in hunter.available_targets
              /\ Orthogonal(hunter.search_queue[i], hunter.first_hit)

\* a first hit was processed next to a cell shot earlier: the queue holds the
\* other neighbours, two or more
C21_Witness ==
    /\ FirstHitProcessed
    /\ Len(hunter.search_queue) >= 2
    /\ \E c \in hunter.board.is_shot \ {hunter.first_hit} :
          Orthogonal(c, hunter.first_hit)

\* the shot just processed was the second hit on the ship and left it afloat
SecondHitProcessed ==
    /\ Processed
    /\ hunter.shot.result.hit
    /\ hunter.shot.hits = 1
    /\ ~hunter.shot.result.is_destroyed

\* the sign of a difference
Sign(n) == IF n > 0 THEN 1 ELSE IF n < 0 THEN -1 ELSE 0

\* the cell behind the second hit on the line from first_hit
NextOnLine ==
    <<hunter.shot.x + Sign(hunter.shot.x - hunter.first_hit[1]),
      hunter.shot.y + Sign(hunter.shot.y - hunter.first_hit[2])>>

\* after the second hit the direction is the sign of the difference to
\* first_hit and the untried next cell of the line heads the queue
SecondHitState ==
    SecondHitProcessed =>
        /\ hunter.current_direction =
              <<Sign(hunter.shot.x - hunter.first_hit[1]),
                Sign(hunter.shot.y - hunter.first_hit[2])>>
        /\ hunter.current_direction \in {<<1, 0>>, <<-1, 0>>, <<0, 1>>, <<0, -1>>}
        /\ (NextOnLine \in HuntCells /\ NextOnLine \notin hunter.board.is_shot)
              => /\ hunter.search_queue # <<>>
                 /\ Head(hunter.search_queue) = NextOnLine

\* the selection that follows takes that cell
SecondHitStep ==
    (/\ SecondHitProcessed
     /\ NextOnLine \in HuntCells
     /\ NextOnLine \notin hunter.board.is_shot
     /\ hunter' # hunter) => hunter'.target = NextOnLine

\* C30: when the second hit lands on the ship of first_hit, no direction
\* being set, current_direction becomes the unit vector of the sign of the
\* difference between the hit and first_hit, and the next cell of that line
\* behind the hit, if untried, is put first in search_queue and is selected
\* before the neighbours of first_hit that are left
C30_SecondHitDirection == [](SecondHitState) /\ [][SecondHitStep]_vars

\* the next cell of the line heads the queue, with a neighbour of first_hit
\* still behind it
C30_Witness ==
    /\ SecondHitProcessed
    /\ Len(hunter.search_queue) >= 2
    /\ Head(hunter.search_queue) = NextOnLine
    /\ Orthogonal(hunter.search_queue[2], hunter.first_hit)

\* the player has selected a target while the ship is hit and afloat
SelectedDuringHunt ==
    /\ hunter # None
    /\ hunter.board # None
    /\ hunter.target # None
    /\ hunter.board.object.hits >= 1
    /\ ~is_destroyed(hunter.board.object)

\* C22: from the first hit on a ship until the ship is destroyed every
\* target the hunt-and-target player selects comes from search_queue, never
\* from the random choice
C22_HuntUntilDestroyed ==
    SelectedDuringHunt => hunter.call.branch = "queue"

----------------------------------------------------------------------------
(* Properties of the Impossible computer *)

\* the shot just fired was scheduled by the Impossible computer
ImpossibleShot ==
    /\ op.name = "timer"
    /\ op.shot # None
    /\ settings.players[1 - op.shot.board] = ImpossibleComputerPlayer

\* C23: every shot the Impossible computer fires is aimed at an occupied cell
\* that was not shot before, and is a hit, in standard and in extended mode
C23_ImpossibleAlwaysHits ==
    ImpossibleShot => (op.shot.hit /\ op.shot.target = "unshot")

----------------------------------------------------------------------------
(* Properties of a computer's turn without targets *)

\* C25: when select_target returns None on a computer's turn in a shooting
\* phase, no exception is raised
C25_NoTargetNoCrash == op.error # "TypeError"

----------------------------------------------------------------------------
(* Properties of the placement of a computer player *)

\* the i-th entry of a player's fleet list
FleetObject(p, i) == heap[p][player_objects[p][i]]

\* the grid of a player as it was when the i-th entry of its fleet list was
\* placed: the entries before it that found a place
PrefixGrid(p, i) ==
    [c \in Cells |->
        [object |-> IF \E j \in 1..(i - 1) :
                          /\ FleetObject(p, j).is_placed
                          /\ c \in Range(FleetObject(p, j).coordinates)
                    THEN 1 ELSE NoObject,
         is_shot |-> FALSE]]

\* the whole fleet of a computer player is processed at once, entry by entry
BatchPlaced(p) ==
    /\ Len(player_objects[p]) \in {0, Len(settings.game_objects)}
    /\ \A i \in 1..Len(player_objects[p]) :
          FleetObject(p, i).name = settings.game_objects[i].name

\* an entry on the grid passed can_place_object when it was placed; an entry
\* without a valid position is not on the grid
PlacedWhereValid(p) ==
    \A i \in 1..Len(player_objects[p]) :
        LET o == FleetObject(p, i) IN
        /\ o.is_placed
              => /\ can_place_object(PrefixGrid(p, i), o.coordinates)
                 /\ \A c \in Range(o.coordinates) :
                       grid[p][c].object = player_objects[p][i]
        /\ ~o.is_placed
              => /\ get_all_valid_positions(PrefixGrid(p, i), o.size) = {}
                 /\ \A c \in Cells : grid[p][c].object # player_objects[p][i]

\* place_random returned whether the object found a place
PlacedReported ==
    \A k \in 1..Len(op.placed) :
        LET e == op.placed[k] IN
        /\ e.idx + 1 <= Len(player_objects[e.player])
        /\ e.placed = FleetObject(e.player, e.idx + 1).is_placed

\* C26: a computer player's placement turn processes all of its fleet
\* objects in one batch; every object on the grid was put at a start cell
\* and orientation that passed can_place_object at that moment; an object
\* without such a position is reported as not placed, leaves the grid
\* unchanged and is not tried again
C26_ComputerPlacement ==
    /\ PlacedReported
    /\ \A p \in Players :
          (game_phase # NoPhase /\ settings.players[p] # HumanPlayer)
              => (BatchPlaced(p) /\ PlacedWhereValid(p))

\* a computer player has placed its Submarine and found no position for its
\* mine: place_random returned True, then False
C26_Witness ==
    /\ game_phase # NoPhase
    /\ \E p \in Players :
          /\ settings.players[p] # HumanPlayer
          /\ Len(player_objects[p]) = 2
          /\ FleetObject(p, 1).is_placed
          /\ ~FleetObject(p, 2).is_placed
          /\ \E k \in 1..Len(op.placed) :
                op.placed[k] = [player |-> p, idx |-> 1, placed |-> FALSE]
          /\ \E k \in 1..Len(op.placed) :
                op.placed[k] = [player |-> p, idx |-> 0, placed |-> TRUE]

----------------------------------------------------------------------------
(* Properties of an invalid phase request *)

\* a request for a type that is no phase of the match raises ValueError and
\* changes nothing of the match
InvalidRequestStep ==
    op'.name = "next_phase_callback" =>
        /\ op'.error = "ValueError"
        /\ UNCHANGED <<grid, board_objects, player_objects, heap, settings,
                       game_phase, current_player_idx, placement_object_idx,
                       ext, available_targets, pending_timers, winner,
                       has_ended, phase_log>>

\* no other handler raises: a click that places or shoots where it must not
\* is answered without an exception
OnlyRequestsRaise == op.error # "" => op.name = "next_phase_callback"

\* C28: a phase-transition request for a type that is not a placement, a
\* shooting or the end phase raises ValueError and leaves the live phase,
\* the players and the grids unchanged; invalid placements and invalid
\* shots raise no exception
C28_InvalidPhaseRequest == []OnlyRequestsRaise /\ [][InvalidRequestStep]_vars

\* the request was refused in a shooting phase after a shot was fired
C28_Witness ==
    /\ op.name = "next_phase_callback"
    /\ op.error = "ValueError"
    /\ game_phase \in {ShootingPhase, ExtendedShootingPhase}
    /\ ShotCount > 0

\* the shot just processed was a miss while a direction was set
MissProcessed ==
    /\ Processed
    /\ ~hunter.shot.result.hit
    /\ hunter.shot.direction # None
    /\ hunter.first_hit # None

\* the cell next to first_hit on the side away from that direction
Mirror ==
    <<hunter.first_hit[1] - hunter.shot.direction[1],
      hunter.first_hit[2] - hunter.shot.direction[2]>>

\* Mirror is on the board and unshot
MirrorUntried == Mirror \in HuntCells /\ Mirror \notin hunter.board.is_shot

\* after such a miss the direction is dropped and the untried mirror cell
\* heads the queue
MissState ==
    MissProcessed =>
        /\ hunter.current_direction = None
        /\ MirrorUntried
              => /\ hunter.search_queue # <<>>
                 /\ Head(hunter.search_queue) = Mirror

\* the selection that follows takes the mirror cell
MissStep ==
    (MissProcessed /\ MirrorUntried /\ hunter' # hunter)
        => hunter'.target = Mirror

HuntHalo ==
    {c \in HuntCells :
        \E i \in 1..Len(hunter.board.object.coordinates) :
            /\ c # hunter.board.object.coordinates[i]
            /\ Touching(c, hunter.board.object.coordinates[i])}

\* the Hard player runs execute_turn on its target and the shot destroys the
\* ship
DestroyingShot ==
    /\ hunter # None
    /\ hunter.board # None
    /\ hunter.class = HardComputerPlayer
    /\ hunter.target # None
    /\ hunter' # hunter
    /\ hunter'.shot.result.is_destroyed

DestroyedStep ==
    DestroyingShot =>
        /\ hunter'.search_queue = <<>>
        /\ hunter'.first_hit = None
        /\ hunter'.current_direction = None
        /\ hunter'.available_targets \cap HuntHalo = {}
        /\ hunter'.available_targets = hunter.available_targets \ HuntHalo
        /\ \A c \in hunter.available_targets \ hunter'.available_targets :
              c \notin Range(hunter.board.object.coordinates)

\* C32: after processing a hit that destroys a ship, search_queue is empty,
\* first_hit and current_direction are unset, available_targets has lost
\* exactly the cells of the board that are 8-connected neighbours of a cell
\* of the destroyed ship, and none of the removed cells holds an object
C32_AfterDestroyed == [][DestroyedStep]_vars

\* a destroyed ship: unshot cells around it are no targets any more, unshot
\* cells further away still are
C32_Witness ==
    /\ Processed
    /\ hunter.shot.result.is_destroyed
    /\ hunter.search_queue = <<>>
    /\ \E c \in HuntHalo \ hunter.board.is_shot : c \notin hunter.available_targets
    /\ \E c \in HuntCells \ HuntHalo : c \in hunter.available_targets

----------------------------------------------------------------------------
(* Properties of the shot results a hunt-and-target player is told *)

\* a hunt-and-target player has fired its shot and not selected another
\* target yet
HunterShotFired ==
    /\ hunter # None
    /\ hunter.board # None
    /\ hunter.target = None
    /\ hunter.shot # None

\* what process_shot_result leaves behind when it is given a hit that does
\* not destroy the ship: the first hit is kept
HitWasProcessed ==
    (hunter.shot.result.hit /\ ~hunter.shot.result.is_destroyed)
        => hunter.first_hit # None

\* C33: after every shot fired by a hunt-and-target computer, Medium or
\* Hard, the phase has passed the result of the shot to the player's
\* process_shot_result before the player selects its next target
C33_ResultPassedOn == HunterShotFired => HitWasProcessed

----------------------------------------------------------------------------
(* Properties of remove_object after place_object *)

\* remove_object(P) is called directly after place_object(P) returned True
RemoveAfterPlaceStep ==
    /\ op.name = "place_object"
    /\ op.ret
    /\ op'.name = "remove_object"
    /\ op'.obj = board_objects[0][Len(board_objects[0])]

\* the grid and the registry are as before the placement, P is not placed
\* and the placement is valid again
RemoveUndoesPlace ==
    RemoveAfterPlaceStep =>
        LET P == board_objects[0][Len(board_objects[0])]
            coords == heap[0][P].coordinates
        IN /\ \A i \in 1..Len(coords) : grid'[0][coords[i]].object = NoObject
           /\ P \notin Range(board_objects'[0])
           /\ ~heap'[0][P].is_placed
           /\ \A c \in Cells \ Range(coords) : grid'[0][c] = grid[0][c]
           /\ board_objects'[0] = ListRemove(board_objects[0], P)
           /\ \A j \in 1..Len(heap[0]) : j # P => heap'[0][j] = heap[0][j]
           /\ grid'[0] = op.before.grid
           /\ board_objects'[0] = op.before.objects
           /\ can_place_object(grid'[0], coords)

\* C34: remove_object(P) directly after a successful place_object(P) leaves
\* the grid and the registry as they were before the placement, with all
\* cells of P unoccupied, P out of the registry and not placed and every
\* other cell and object unchanged, and the same placement is valid again
C34_RemoveUndoesPlace == [][RemoveUndoesPlace]_vars

\* an object is removed directly after its placement next to another object
\* that stays on the grid
C34_Witness ==
    /\ op.name = "remove_object"
    /\ op.placed_before
    /\ board_objects[0] # <<>>
    /\ ~heap[0][op.obj].is_placed

----------------------------------------------------------------------------
(* Properties of the recorded winner *)

\* GameUI.next_phase_callback(EndPhase) records the winner in this step
WinnerRecorded == ~has_ended /\ has_ended'

\* the recorded winner owns an object that is not destroyed
WinnerHasNotLost ==
    \E i \in 1..Len(player_objects'[winner']) :
        ~is_destroyed(heap'[winner'][player_objects'[winner'][i]])

WinnerRecordedStep == WinnerRecorded => WinnerHasNotLost

\* C35: the winner recorded at the transition to End has not lost, in
\* standard and in extended mode, also when the destroying shot is the last
\* of the turn's allowance and when a mine hit destroys the shooter's ship
C35_WinnerHasNotLost == [][WinnerRecordedStep]_vars

----------------------------------------------------------------------------
(* Properties of the cells a computer fires at *)

\* C36: a computer player never fires at a cell of the opponent's grid that
\* has been shot already, in standard and in extended mode, also when the
\* cell was marked shot by the explosion of a mine: every delayed shot of a
\* computer meets an unshot cell
C36_NoRepeatedComputerShot ==
    (op.name = "timer" /\ op.shot # None) => op.shot.target = "unshot"

----------------------------------------------------------------------------
(* Properties of the fleets when the shooting starts *)

\* the object of index i of player p's fleet list is in the registry of the
\* grid and occupies exactly size cells of it
OnGrid(p, i) ==
    LET id == player_objects[p][i]
        o == heap[p][id]
    IN /\ o.is_placed
       /\ id \in Range(board_objects[p])
       /\ Range(o.coordinates) \subseteq Cells
       /\ Cardinality({c \in Cells : grid[p][c].object = id}) = o.size
       /\ \A c \in Cells : grid[p][c].object = id <=> c \in Range(o.coordinates)

\* C37: when Shooting starts, every object in each player's fleet list is
\* placed on that player's grid: it is in the grid's registry and occupies
\* exactly size in-bounds cells, whether it was placed by clicks, by the
\* auto-place button or by the computer's batch placement
C37_FleetOnGrid ==
    game_phase \in ShootingClasses
        => \A p \in Players : \A i \in 1..Len(player_objects[p]) : OnGrid(p, i)

----------------------------------------------------------------------------
(* Properties of clicks during a computer's turn *)

\* a click on a board arrives while a computer is the current player of a
\* shooting phase
ClickInComputerTurn ==
    /\ game_phase \in ShootingClasses
    /\ IsComputerPlayer(State, current_player_idx)
    /\ op'.name = "on_cell_click"

\* such a click changes no grid and no turn state and schedules nothing
ClickInComputerTurnStep ==
    ClickInComputerTurn
        => UNCHANGED <<grid, heap, current_player_idx, ext, pending_timers,
                       game_phase>>

\* C38: during Shooting a click fires a shot only when the current player
\* is a human; while a computer is the current player a click on any board
\* changes no grid, no turn state and schedules nothing, so at most one
\* delayed computer shot is pending at any time
C38_ClicksInComputerTurn ==
    /\ [][ClickInComputerTurnStep]_vars
    /\ [](Len(pending_timers) <= 1)

----------------------------------------------------------------------------
(* Properties of the orientation of the objects offered for placement *)

\* the step makes another fleet slot, or the same slot for the other
\* player, the one to be placed
SlotOffered ==
    /\ game_phase' \in PlacementClasses
    /\ placement_object_idx' < Len(settings'.game_objects)
    /\ \/ game_phase \notin PlacementClasses
       \/ current_player_idx' # current_player_idx
       \/ placement_object_idx' # placement_object_idx

\* a newly offered object lies HORIZONTAL
OfferedHorizontalStep ==
    SlotOffered => current_object(State)'.orientation = HORIZONTAL

\* toggle_orientation rotates the object being placed and nothing else
ToggleStep ==
    op'.name = "toggle_orientation"
        => /\ settings'.game_objects[placement_object_idx + 1].orientation
                 # settings.game_objects[placement_object_idx + 1].orientation
           /\ \A i \in 1..Len(settings.game_objects) :
                 i # placement_object_idx + 1
                     => settings'.game_objects[i] = settings.game_objects[i]
           /\ UNCHANGED <<grid, heap, player_objects, board_objects,
                          current_player_idx, placement_object_idx>>

\* a placement by a click or by the auto-place button leaves the fleet
\* template as it is
PlacementKeepsTemplateStep ==
    (game_phase \in PlacementClasses
        /\ op'.name \in {"on_cell_click", "auto_place_all_ships"})
        => settings'.game_objects = settings.game_objects

\* C40: in Placement every fleet object is offered to each player in
\* HORIZONTAL orientation until that player toggles it; toggle_orientation
\* changes only the orientation of the object being placed and does not
\* change the orientation in which the other player is offered the same
\* slot; placing an object never changes the fleet template
C40_OfferedHorizontal ==
    [][OfferedHorizontalStep /\ ToggleStep /\ PlacementKeepsTemplateStep]_vars

----------------------------------------------------------------------------
(* Properties of the end of a match *)

\* C39: every match terminates: a shooting phase of two computers that has
\* not reached End has a scheduled shot waiting, so that the match goes on
\* until End when every scheduled shot fires
C39_MatchTerminates ==
    (/\ game_phase \in ShootingClasses
     /\ \A p \in Players : IsComputerPlayer(State, p))
        => pending_timers # <<>>

====
